---- MODULE Spec2Model ----
(***************************************************************************)
(* A model of win-ctrl-mcp: the display classifier (tools/display.py), the *)
(* preset store and the batch tools (tools/focus.py), focus_window         *)
(* (tools/window.py) and the window-manager queries (aerospace.py).        *)
(*                                                                         *)
(* Python values are modelled as follows.  A string is a tuple of          *)
(* one-character strings where the code looks inside it (application,      *)
(* preset and monitor names) and a TLA+ string where it is only compared.  *)
(* An optional dictionary key is <<>> when absent and <<v>> when present.  *)
(* Lengths in inches are counted in tenths of an inch.                     *)
(***************************************************************************)
EXTENDS Integers, Sequences, FiniteSets, TLC

VARIABLES
    displays,        \* argument of the pure classifier functions
    windows,         \* window manager: window-id -> <<window>>, or <<>>
    focused,         \* window manager: id of the focused window, 0 if none
    hw,              \* index of the connected hardware configuration
    changes,         \* how often the user or the hardware changed something
    preset_dir,      \* TRUE when PRESET_DIR exists on disk
    files,           \* PRESET_DIR: file name -> <<stored document>>, or <<>>
    clock,           \* datetime.now(), in ticks: one tick per save
    op,              \* the last call: its name and arguments
    result,          \* what the last call returned or raised
    cmds             \* the commands the last call issued, oldest first

vars == <<displays, windows, focused, hw, changes, preset_dir, files, clock, op, result, cmds>>

\* ------------------------------------------------------------------------
\* Python values

\* dict.get(key, default) on an optional key
Get(field, default) == IF field = <<>> THEN default ELSE field[1]

\* a resolution dictionary {"width": w, "height": h}, either key optional
Res(w, h) == [width |-> <<w>>, height |-> <<h>>]
EmptyDict == [width |-> <<>>, height |-> <<>>]

\* bool(d) of a resolution dictionary: an empty dictionary is falsy
Truthy(d) == d.width # <<>> \/ d.height # <<>>

\* what a function returns, and what it raises (AeroSpaceError)
Return(v) == [raised |-> FALSE, value |-> v]
Raise(code, message, details) ==
    [raised |-> TRUE, error |-> [code |-> code, message |-> message, details |-> details]]

\* ------------------------------------------------------------------------
\* tools/display.py: the classifier

LargeInches == 270
MediumInches == 150
LargePixels == 3686400
MediumPixels == 1036800

\* display.get("effective_resolution") or display.get("resolution", {})
EffectiveOrResolution(display) ==
    IF display.effective_resolution # <<>> /\ Truthy(display.effective_resolution[1])
    THEN display.effective_resolution[1]
    ELSE Get(display.resolution, EmptyDict)

TotalPixels(resolution) == Get(resolution.width, 0) * Get(resolution.height, 0)

\* SingleBySize with the 27" boundary excluded
SingleBySizeExclusive(size_inches) ==
    IF size_inches > LargeInches
    THEN <<"large_single", "Large single display (27\"+): centered focus with flanking reference">>
    ELSE IF size_inches >= MediumInches
    THEN <<"medium_single", "Medium single display (15-24\"): 70/30 split with sidebar">>
    ELSE <<"small_single", "Small single display (<15\"): fullscreen focus, workspaces for others">>

SingleBySize(size_inches) ==
    IF size_inches >= LargeInches
    THEN <<"large_single", "Large single display (27\"+): centered focus with flanking reference">>
    ELSE IF size_inches >= MediumInches
    THEN <<"medium_single", "Medium single display (15-24\"): 70/30 split with sidebar">>
    ELSE <<"small_single", "Small single display (<15\"): fullscreen focus, workspaces for others">>

\* SingleByPixels with the lower threshold excluded
SingleByPixelsExclusive(total_pixels) ==
    IF total_pixels >= LargePixels
    THEN <<"large_single", "Large single display: centered focus with flanking reference">>
    ELSE IF total_pixels > MediumPixels
    THEN <<"medium_single", "Medium single display: 70/30 split with sidebar">>
    ELSE <<"small_single", "Small single display: fullscreen focus, workspaces for others">>

SingleByPixels(total_pixels) ==
    IF total_pixels >= LargePixels
    THEN <<"large_single", "Large single display: centered focus with flanking reference">>
    ELSE IF total_pixels >= MediumPixels
    THEN <<"medium_single", "Medium single display: 70/30 split with sidebar">>
    ELSE <<"small_single", "Small single display: fullscreen focus, workspaces for others">>

\* _calculate_display_category with the three-display test off by one
CategoryMoreThanThree(ds) ==
    LET num_displays == Len(ds) IN
    IF num_displays = 0 THEN <<"unknown", "No displays detected">>
    ELSE IF num_displays > 3
    THEN <<"triple_plus",
           "Three or more monitors: focus=primary, reference=secondary, communication=tertiary">>
    ELSE IF num_displays = 2
    THEN <<"dual_display", "Two monitors: focus on primary, reference on secondary">>
    ELSE LET display == ds[1]
             total_pixels == TotalPixels(EffectiveOrResolution(display))
             size_inches == Get(display.size_inches, 0)
         IN  IF size_inches > 0 THEN SingleBySize(size_inches)
             ELSE SingleByPixels(total_pixels)

_calculate_display_category(ds) ==
    LET num_displays == Len(ds) IN
    IF num_displays = 0 THEN <<"unknown", "No displays detected">>
    ELSE IF num_displays >= 3
    THEN <<"triple_plus",
           "Three or more monitors: focus=primary, reference=secondary, communication=tertiary">>
    ELSE IF num_displays = 2
    THEN <<"dual_display", "Two monitors: focus on primary, reference on secondary">>
    ELSE LET display == ds[1]
             total_pixels == TotalPixels(EffectiveOrResolution(display))
             size_inches == Get(display.size_inches, 0)
         IN  IF size_inches > 0 THEN SingleBySize(size_inches)
             ELSE SingleByPixels(total_pixels)

_get_size_category(resolution) ==
    LET total_pixels == TotalPixels(resolution) IN
    IF total_pixels >= LargePixels THEN "large"
    ELSE IF total_pixels >= MediumPixels THEN "medium"
    ELSE "small"

\* ------------------------------------------------------------------------
\* Inputs of the classifier

MaxDisplays == 3

SizeInputs == {<<>>, <<0>>, <<-10>>, <<130>>, <<149>>, <<150>>, <<210>>, <<269>>, <<270>>, <<320>>}

ResolutionInputs ==
    {<<>>, <<EmptyDict>>, <<Res(0, 0)>>, <<Res(1024, 768)>>, <<Res(1279, 810)>>,
     <<Res(1280, 810)>>, <<Res(1920, 1080)>>, <<Res(2559, 1440)>>, <<Res(2560, 1440)>>,
     <<[width |-> <<2560>>, height |-> <<>>]>>}

\* the first display of a list: every combination of the three keys
DisplayInputs ==
    [size_inches : SizeInputs, effective_resolution : ResolutionInputs,
     resolution : ResolutionInputs]

\* the further displays of a list
OtherDisplayInputs ==
    [size_inches : {<<>>, <<130>>, <<270>>},
     effective_resolution : {<<>>, <<Res(2560, 1440)>>},
     resolution : {<<Res(1024, 768)>>}]

\* the lists the classifier starts from; ConnectDisplay makes them longer
DisplayLists == {<<>>} \cup {<<d>> : d \in DisplayInputs}

\* ------------------------------------------------------------------------
\* Strings as tuples of characters

UpperCase == <<"A", "B", "C", "D", "E", "F", "G", "H", "I", "J", "K", "L", "M", "N", "O", "P", "Q", "R", "S", "T", "U", "V", "W", "X", "Y", "Z">>
LowerCase == <<"a", "b", "c", "d", "e", "f", "g", "h", "i", "j", "k", "l", "m", "n", "o", "p", "q", "r", "s", "t", "u", "v", "w", "x", "y", "z">>

LowerChar(c) ==
    IF \E i \in 1..26 : UpperCase[i] = c
    THEN LowerCase[CHOOSE i \in 1..26 : UpperCase[i] = c]
    ELSE c

\* str.lower()
lower(s) == [i \in 1..Len(s) |-> LowerChar(s[i])]

\* needle in hay, of two strings
In(needle, hay) ==
    \E i \in 0..(Len(hay) - Len(needle)) : SubSeq(hay, i + 1, i + Len(needle)) = needle

\* str(i) of a one-digit number
Digit(i) == <<"0", "1", "2", "3", "4", "5", "6", "7", "8", "9">>[i + 1]

\* str.isdigit() and int(text), of a text of one character
IsDigit(text) == \E i \in 0..9 : Digit(i) = text
ParseInt(text) == CHOOSE i \in 0..9 : Digit(i) = text

\* ------------------------------------------------------------------------
\* tools/focus.py: the application categories

CategoryNames == <<"communication", "development", "reference", "media">>

APP_CATEGORIES ==
    [communication |-> <<
        <<"S", "l", "a", "c", "k">>,
        <<"D", "i", "s", "c", "o", "r", "d">>,
        <<"M", "a", "i", "l">>,
        <<"M", "e", "s", "s", "a", "g", "e", "s">>,
        <<"M", "i", "c", "r", "o", "s", "o", "f", "t", " ", "T", "e", "a", "m", "s">>,
        <<"Z", "o", "o", "m">>,
        <<"T", "e", "l", "e", "g", "r", "a", "m">>,
        <<"W", "h", "a", "t", "s", "A", "p", "p">>,
        <<"S", "i", "g", "n", "a", "l">>>>,
     development |-> <<
        <<"V", "i", "s", "u", "a", "l", " ", "S", "t", "u", "d", "i", "o", " ", "C", "o", "d", "e">>,
        <<"C", "o", "d", "e">>,
        <<"X", "c", "o", "d", "e">>,
        <<"T", "e", "r", "m", "i", "n", "a", "l">>,
        <<"i", "T", "e", "r", "m">>,
        <<"i", "T", "e", "r", "m", "2">>,
        <<"I", "n", "t", "e", "l", "l", "i", "J", " ", "I", "D", "E", "A">>,
        <<"P", "y", "C", "h", "a", "r", "m">>,
        <<"W", "e", "b", "S", "t", "o", "r", "m">>,
        <<"A", "n", "d", "r", "o", "i", "d", " ", "S", "t", "u", "d", "i", "o">>,
        <<"S", "u", "b", "l", "i", "m", "e", " ", "T", "e", "x", "t">>,
        <<"A", "t", "o", "m">>,
        <<"V", "i", "m">>,
        <<"N", "e", "o", "v", "i", "m">>,
        <<"E", "m", "a", "c", "s">>>>,
     reference |-> <<
        <<"G", "o", "o", "g", "l", "e", " ", "C", "h", "r", "o", "m", "e">>,
        <<"C", "h", "r", "o", "m", "e">>,
        <<"S", "a", "f", "a", "r", "i">>,
        <<"F", "i", "r", "e", "f", "o", "x">>,
        <<"A", "r", "c">>,
        <<"N", "o", "t", "e", "s">>,
        <<"N", "o", "t", "i", "o", "n">>,
        <<"O", "b", "s", "i", "d", "i", "a", "n">>,
        <<"E", "v", "e", "r", "n", "o", "t", "e">>,
        <<"B", "e", "a", "r">>,
        <<"P", "r", "e", "v", "i", "e", "w">>,
        <<"F", "i", "n", "d", "e", "r">>>>,
     media |-> <<
        <<"S", "p", "o", "t", "i", "f", "y">>,
        <<"M", "u", "s", "i", "c">>,
        <<"A", "p", "p", "l", "e", " ", "M", "u", "s", "i", "c">>,
        <<"Y", "o", "u", "T", "u", "b", "e">>,
        <<"V", "L", "C">>,
        <<"P", "h", "o", "t", "o", "s">>,
        <<"Q", "u", "i", "c", "k", "T", "i", "m", "e", " ", "P", "l", "a", "y", "e", "r">>,
        <<"I", "I", "N", "A">>>>]

\* a membership test that knows the listed names only
InCategoryAppsListed(app_name, apps) == \E i \in 1..Len(apps) : apps[i] = app_name

\* app_name in apps or any(app.lower() in app_name.lower() for app in apps)
InCategoryApps(app_name, apps) ==
    \/ \E i \in 1..Len(apps) : apps[i] = app_name
    \/ \E i \in 1..Len(apps) : In(lower(apps[i]), lower(app_name))

\* the first category, in the order of the table, that has the application; <<>> for None
_get_app_category(app_name) ==
    LET hits == {i \in 1..Len(CategoryNames) :
                    InCategoryApps(app_name, APP_CATEGORIES[CategoryNames[i]])}
    IN  IF hits = {} THEN <<>>
        ELSE <<CategoryNames[CHOOSE i \in hits : \A j \in hits : i <= j]>>

\* ------------------------------------------------------------------------
\* The connected hardware: what `aerospace list-monitors --json` lists and what
\* _get_system_display_info() parses out of system_profiler

BuiltInRetina == <<"B", "u", "i", "l", "t", "-", "i", "n", " ", "R", "e", "t", "i", "n", "a", " ", "D", "i", "s", "p", "l", "a", "y">>
DellU2720Q == <<"D", "E", "L", "L", " ", "U", "2", "7", "2", "0", "Q">>
ColorLCD == <<"C", "o", "l", "o", "r", " ", "L", "C", "D">>
LGHD == <<"L", "G", " ", "H", "D">>

Monitor(name) == [name |-> <<name>>]
UnnamedMonitor == [name |-> <<>>]

SystemDisplay(name, w, h, native, builtin, main) ==
    [name |-> name, resolution |-> Res(w, h), native_resolution |-> native,
     is_builtin |-> builtin, is_main |-> main]

LaptopPanel == SystemDisplay(ColorLCD, 1728, 1117, <<Res(3456, 2234)>>, TRUE, TRUE)
DellPanel == SystemDisplay(DellU2720Q, 2560, 1440, <<Res(2560, 1440)>>, FALSE, FALSE)
LGPanel == SystemDisplay(LGHD, 1920, 1080, <<>>, FALSE, TRUE)

HardwareConfigs ==
    << [monitors |-> <<>>, system_displays |-> <<>>],
       [monitors |-> <<Monitor(BuiltInRetina)>>, system_displays |-> <<LaptopPanel>>],
       [monitors |-> <<Monitor(LGHD)>>, system_displays |-> <<LGPanel>>],
       [monitors |-> <<Monitor(DellU2720Q)>>, system_displays |-> <<DellPanel>>],
       [monitors |-> <<UnnamedMonitor>>, system_displays |-> <<>>],
       [monitors |-> <<Monitor(BuiltInRetina), Monitor(DellU2720Q)>>,
        system_displays |-> <<LaptopPanel, DellPanel>>],
       [monitors |-> <<Monitor(BuiltInRetina), Monitor(DellU2720Q), Monitor(LGHD)>>,
        system_displays |-> <<LaptopPanel, DellPanel, LGPanel>>] >>

Hardware == 1..Len(HardwareConfigs)

\* aerospace.py: list_monitors()
list_monitors(h) == HardwareConfigs[h].monitors

_get_system_display_info(h) == HardwareConfigs[h].system_displays

\* ------------------------------------------------------------------------
\* tools/display.py: get_display_info and get_display_category

\* round(native_width / effective_width, 1), in tenths
ScaleFactor(native_width, effective_width) ==
    (20 * native_width + effective_width) \div (2 * effective_width)

\* round((w ** 2 + (w * 0.625) ** 2) ** 0.5, 1) for w = width_px / ppi, in tenths of an
\* inch: the t with (2t - 1)^2 <= 4 * 100 * (89 / 64) * (width_px / ppi)^2 < (2t + 1)^2
EstimateSizeInches(width_px, ppi) ==
    LET d == (4 * ppi * ppi) \div 25
        n == 89 * width_px * width_px
    IN  CHOOSE t \in 0..500 :
            /\ n < (2 * t + 1) * (2 * t + 1) * d
            /\ t > 0 => n >= (2 * t - 1) * (2 * t - 1) * d

\* monitor.get("name", f"Display {i + 1}")
DisplayName(monitor, i) == Get(monitor.name, <<"D", "i", "s", "p", "l", "a", "y", " ">> \o <<Digit(i)>>)

\* the first system display that matches the monitor's name, <<>> for None
MatchSystemDisplay(name, system_displays) ==
    LET hits == {k \in 1..Len(system_displays) :
                    \/ In(system_displays[k].name, name)
                    \/ In(name, system_displays[k].name)
                    \/ /\ system_displays[k].is_builtin
                       /\ In(<<"b", "u", "i", "l", "t", "-", "i", "n">>, lower(name))}
    IN  IF hits = {} THEN <<>>
        ELSE <<system_displays[CHOOSE k \in hits : \A j \in hits : k <= j]>>

\* round(native / effective, 1) when both resolutions are there, 1.0 otherwise
SystemScaleFactor(sd) ==
    IF /\ sd.native_resolution # <<>>
       /\ Truthy(sd.native_resolution[1])
       /\ Truthy(sd.resolution)
       /\ Get(sd.resolution.width, 0) # 0
    THEN ScaleFactor(Get(sd.native_resolution[1].width, 0), Get(sd.resolution.width, 1))
    ELSE 10

\* 220 for the built-in panel and for a scaled display, 110 otherwise
Ppi(is_builtin, scale_factor) ==
    IF scale_factor > 10 THEN 220 ELSE IF is_builtin THEN 220 ELSE 110

\* the display of a monitor that system_profiler knows as sd
SizedDisplay(i, name, sd, scale_factor, ppi, width_px) ==
    [id |-> i, name |-> name,
     resolution |-> <<sd.resolution>>,
     is_builtin |-> sd.is_builtin,
     is_primary |-> sd.is_main,
     scale_factor |-> scale_factor,
     effective_resolution |-> <<sd.resolution>>,
     size_inches |-> <<IF ppi > 0 /\ width_px > 0 THEN EstimateSizeInches(width_px, ppi)
                       ELSE 0>>,
     ppi |-> IF ppi > 0 /\ width_px > 0 THEN ppi ELSE 0]

MatchedDisplay(i, name, sd, scale_factor) ==
    SizedDisplay(i, name, sd, scale_factor, Ppi(sd.is_builtin, scale_factor),
                 Get(sd.resolution.width, 0))

\* the defaults for a monitor that system_profiler does not know
UnmatchedDisplay(i, name) ==
    [id |-> i, name |-> name,
     resolution |-> <<Res(0, 0)>>,
     is_builtin |-> FALSE,
     is_primary |-> (i = 1),
     scale_factor |-> 10,
     effective_resolution |-> <<Res(0, 0)>>,
     size_inches |-> <<0>>,
     ppi |-> 0]

MergeFound(i, name, found) ==
    IF found # <<>> THEN MatchedDisplay(i, name, found[1], SystemScaleFactor(found[1]))
    ELSE UnmatchedDisplay(i, name)

\* the body of get_display_info's loop for the i-th monitor
MergeDisplay(monitor, i, system_displays) ==
    MergeFound(i, DisplayName(monitor, i),
               MatchSystemDisplay(DisplayName(monitor, i), system_displays))

MergedDisplays(monitors, system_displays) ==
    [i \in 1..Len(monitors) |-> MergeDisplay(monitors[i], i, system_displays)]

RECURSIVE SumPixels(_, _)
SumPixels(ds, i) ==
    IF i > Len(ds) THEN 0
    ELSE TotalPixels(Get(ds[i].effective_resolution, EmptyDict)) + SumPixels(ds, i + 1)

\* what get_display_info returns for the merged displays ds
InfoOf(ds) ==
    [displays |-> ds,
     arrangement |-> IF Len(ds) = 1 THEN "single"
                     ELSE IF Len(ds) = 2 THEN "horizontal" ELSE "multiple",
     total_effective_pixels |-> SumPixels(ds, 1),
     category |-> _calculate_display_category(ds)[1]]

DisplayInfo(h) == InfoOf(MergedDisplays(list_monitors(h), _get_system_display_info(h)))

\* get_display_info() with the hardware h connected.  The value is a function of h
\* alone, so it is tabulated once for each h.
DisplayInfoOf == [h \in Hardware |-> DisplayInfo(h)]

get_display_info(h) == DisplayInfoOf[h]

\* a table without the row of two displays
RecommendedStrategyNoDual(category) ==
    CASE category = "small_single" -> "fullscreen_focus"
      [] category = "medium_single" -> "split_sidebar"
      [] category = "large_single" -> "centered_focus"
      [] category = "triple_plus" -> "dedicated_monitors"
      [] OTHER -> "fullscreen_focus"

\* strategies.get(category, "fullscreen_focus")
RecommendedStrategy(category) ==
    CASE category = "small_single" -> "fullscreen_focus"
      [] category = "medium_single" -> "split_sidebar"
      [] category = "large_single" -> "centered_focus"
      [] category = "dual_display" -> "primary_focus_secondary_reference"
      [] category = "triple_plus" -> "dedicated_monitors"
      [] OTHER -> "fullscreen_focus"

\* next((d for d in displays if d.get("is_primary")), displays[0])
PrimaryDisplay(ds) ==
    LET prim == {i \in 1..Len(ds) : ds[i].is_primary} IN
    IF prim = {} THEN ds[1] ELSE ds[CHOOSE i \in prim : \A j \in prim : i <= j]

RECURSIVE SecondarySizes(_, _)
SecondarySizes(ds, i) ==
    IF i > Len(ds) THEN <<>>
    ELSE (IF ds[i].is_primary THEN <<>>
          ELSE <<_get_size_category(EffectiveOrResolution(ds[i]))>>)
         \o SecondarySizes(ds, i + 1)

\* what get_display_category returns for the displays ds, classified (category,
\* description)
CategoryRecord(ds, classified) ==
    [category |-> classified[1],
     primary_size |-> IF Len(ds) = 0 THEN "medium"
                      ELSE _get_size_category(EffectiveOrResolution(PrimaryDisplay(ds))),
     secondary_sizes |-> SecondarySizes(ds, 1),
     recommended_strategy |-> RecommendedStrategy(classified[1]),
     description |-> classified[2]]

CategoryOf(ds) == CategoryRecord(ds, _calculate_display_category(ds))

DisplayCategory(h) == CategoryOf(get_display_info(h).displays)

\* get_display_category() with the hardware h connected, tabulated like get_display_info
DisplayCategoryOf == [h \in Hardware |-> DisplayCategory(h)]

\* a get_display_category that keeps what it computed for the laptop panel alone
LaptopDisplayCategory(h) == DisplayCategoryOf[2]

get_display_category(h) == DisplayCategoryOf[h]

\* ------------------------------------------------------------------------
\* The window manager: its windows, and the commands it is sent

MaxWindows == 2

WindowIds == 1..MaxWindows

Slack == <<"S", "l", "a", "c", "k">>
Gmail == <<"G", "m", "a", "i", "l">>
Code == <<"C", "o", "d", "e">>

AppNames == {Slack, Gmail, Code}

\* one run_aerospace_command(*argv): the argument list and whether it exited with 0
Command(argv, ok) == [argv |-> argv, ok |-> ok]

QueryWindows == Command(<<"list-windows", "--all", "--json">>, TRUE)
QueryFocused == Command(<<"list-windows", "--focused", "--json">>, TRUE)
QueryMonitors == Command(<<"list-monitors", "--json">>, TRUE)

\* aerospace.py: list_windows(all_windows=True), in the order of the window ids
RECURSIVE ListFrom(_, _)
ListFrom(wins, i) ==
    IF i > MaxWindows THEN <<>>
    ELSE (IF wins[i] = <<>> THEN <<>>
          ELSE <<[window_id |-> i, app_name |-> wins[i][1].app_name,
                  workspace |-> wins[i][1].workspace]>>)
         \o ListFrom(wins, i + 1)

list_windows(wins) == ListFrom(wins, 1)

\* aerospace.py: get_focused_window(), <<>> for None
get_focused_window(wins, foc) ==
    IF foc \in WindowIds /\ wins[foc] # <<>>
    THEN <<[window_id |-> foc, app_name |-> wins[foc][1].app_name,
            workspace |-> wins[foc][1].workspace]>>
    ELSE <<>>

\* aerospace.py: get_window_by_id(window_id), <<>> for None
get_window_by_id(wins, window_id) ==
    LET listed == list_windows(wins)
        hits == {j \in 1..Len(listed) : listed[j].window_id = window_id}
    IN  IF hits = {} THEN <<>> ELSE <<listed[CHOOSE j \in hits : \A k \in hits : j <= k]>>

\* What a command that exits with 0 does to the window manager.  st is the call's view of
\* the world: [cmds, windows, focused, count].  The fullscreen state, which no listing
\* shows, is kept for the windows opened with an is_fullscreen field.
Effect(st, argv) ==
    IF argv[1] = "focus" /\ Len(argv) = 3 /\ argv[2] = "--window-id"
    THEN [st EXCEPT !.focused = ParseInt(argv[3])]
    ELSE IF argv[1] = "move-node-to-workspace" /\ st.focused \in WindowIds
            /\ st.windows[st.focused] # <<>>
    THEN [st EXCEPT !.windows[st.focused] =
             <<[app_name |-> st.windows[st.focused][1].app_name, workspace |-> <<argv[2]>>]>>]
    ELSE IF argv[1] = "close" /\ Len(argv) = 3 /\ ParseInt(argv[3]) \in WindowIds
    THEN [st EXCEPT !.windows[ParseInt(argv[3])] = <<>>,
                    !.focused = IF @ = ParseInt(argv[3]) THEN 0 ELSE @]
    ELSE IF argv = <<"close">> /\ st.focused \in WindowIds
    THEN [st EXCEPT !.windows[st.focused] = <<>>, !.focused = 0]
    ELSE IF argv = <<"fullscreen">> /\ st.focused \in WindowIds
            /\ st.windows[st.focused] # <<>>
            /\ "is_fullscreen" \in DOMAIN st.windows[st.focused][1]
    THEN [st EXCEPT !.windows[st.focused] = <<[@[1] EXCEPT !.is_fullscreen = ~@]>>]
    ELSE st

\* aerospace.py: run_aerospace_command(*argv) with check=True; ok is the exit status the
\* window manager gives
RunCommand(st, argv, ok) ==
    LET logged == [st EXCEPT !.cmds = Append(st.cmds, Command(argv, ok))] IN
    IF ok THEN Effect(logged, argv) ELSE logged

\* the error run_aerospace_command raises for a non-zero exit status; the text the window
\* manager wrote to stderr is left out
CommandFailed(argv) ==
    Raise("COMMAND_FAILED", "AeroSpace command failed",
          [command |-> <<"aerospace">> \o argv, return_code |-> 1])

\* how the commands for one item of a batch end
Outcomes == {"ok", "focus_fails", "move_fails"}

\* ------------------------------------------------------------------------
\* tools/focus.py: the preset store

Empty == <<>>
Work == <<"w", "o", "r", "k">>

PresetNames == {Empty, Work}

\* a store with one file for all names
PresetFileShared(name) == <<".", "j", "s", "o", "n">>

\* PRESET_DIR / f"{name}.json"
PresetFile(name) == name \o <<".", "j", "s", "o", "n">>

PresetFiles == {PresetFile(n) : n \in PresetNames}

\* pathlib: PurePath.stem, the file name without its last suffix
Stem(file) ==
    LET dots == {k \in 1..Len(file) : file[k] = "."} IN
    IF dots = {} THEN file
    ELSE LET i == CHOOSE k \in dots : \A j \in dots : j <= k IN
         IF 1 < i /\ i < Len(file) THEN SubSeq(file, 1, i - 1) ELSE file

\* preset_path.exists()
Exists(name) == preset_dir /\ PresetFile(name) \in DOMAIN files /\ files[PresetFile(name)] # <<>>

\* [f.stem for f in PRESET_DIR.glob("*.json")] when PRESET_DIR.exists(), as a set
AvailablePresets ==
    IF preset_dir THEN {Stem(f) : f \in {g \in DOMAIN files : files[g] # <<>>}} ELSE {}

Descriptions == {<<>>, <<"Deep work">>}

\* description or f"Focus preset: {name}"
DescriptionOr(description, name) ==
    IF description # <<>> THEN <<description[1], <<>>>> ELSE <<"Focus preset: ", name>>

\* a snapshot that records every window in the workspace of the first one listed
SnapshotWindowsInFirstWorkspace(all_windows) ==
    [j \in 1..Len(all_windows) |->
        [app_name |-> all_windows[j].app_name,
         workspace |-> all_windows[1].workspace,
         is_focused |-> FALSE]]

\* windows_list: an entry for every window listed, by application name and workspace
SnapshotWindows(all_windows) ==
    [j \in 1..Len(all_windows) |->
        [app_name |-> all_windows[j].app_name,
         workspace |-> all_windows[j].workspace,
         is_focused |-> FALSE]]

\* the document save_focus_preset writes
PresetData(name, description, h, wins, now) ==
    [name |-> name,
     description |-> DescriptionOr(description, name),
     display_category |-> get_display_category(h).category,
     created_at |-> now,
     windows |-> SnapshotWindows(list_windows(wins)),
     monitors |-> [i \in 1..Len(list_monitors(h)) |-> list_monitors(h)[i].name]]

\* a store that keeps the first document written under a name
WritePresetOnce(fs, name, preset_data) ==
    IF fs[PresetFile(name)] # <<>> THEN fs ELSE [fs EXCEPT ![PresetFile(name)] = <<preset_data>>]

\* with open(preset_path, "w") as f: json.dump(preset_data, f): the file is replaced
WritePreset(fs, name, preset_data) == [fs EXCEPT ![PresetFile(name)] = <<preset_data>>]

\* a check that rejects every changed configuration, adapt_to_displays or not
DisplayMismatchAlways(current_category, saved_category, adapt_to_displays) ==
    current_category # saved_category

\* current_category != saved_category and not adapt_to_displays
DisplayMismatch(current_category, saved_category, adapt_to_displays) ==
    current_category # saved_category /\ ~adapt_to_displays

\* the first listed window of the application, <<>> when there is none
FirstWindowOf(app_name, all_windows) ==
    LET hits == {j \in 1..Len(all_windows) : all_windows[j].app_name = app_name} IN
    IF hits = {} THEN <<>> ELSE <<all_windows[CHOOSE j \in hits : \A k \in hits : j <= k]>>

\* a loop body that counts the entry as soon as its window is found
ArrangeOneCountsMatches(st, preset_window, all_windows, outcome) ==
    LET found == FirstWindowOf(preset_window.app_name, all_windows) IN
    IF found = <<>> THEN st
    ELSE LET focus_ok == outcome # "focus_fails"
             st1 == RunCommand([st EXCEPT !.count = @ + 1],
                               <<"focus", "--window-id", Digit(found[1].window_id)>>, focus_ok)
         IN  IF ~focus_ok \/ preset_window.workspace = <<>> THEN st1
             ELSE RunCommand(st1, <<"move-node-to-workspace", preset_window.workspace[1]>>,
                             outcome # "move_fails")

\* the body of load_focus_preset's loop for the entry preset_window: focus the first
\* window of the application, move it when a workspace is recorded, count it when no
\* command raised
ArrangeOne(st, preset_window, all_windows, outcome) ==
    LET found == FirstWindowOf(preset_window.app_name, all_windows) IN
    IF found = <<>> THEN st
    ELSE LET focus_ok == outcome # "focus_fails"
             st1 == RunCommand(st, <<"focus", "--window-id", Digit(found[1].window_id)>>,
                               focus_ok)
         IN  IF ~focus_ok THEN st1
             ELSE IF preset_window.workspace = <<>>
             THEN [st1 EXCEPT !.count = @ + 1]
             ELSE LET move_ok == outcome # "move_fails"
                      st2 == RunCommand(st1, <<"move-node-to-workspace",
                                               preset_window.workspace[1]>>, move_ok)
                  IN  IF move_ok THEN [st2 EXCEPT !.count = @ + 1] ELSE st2

\* for preset_window in preset_data.get("windows", [])
RECURSIVE ArrangeAll(_, _, _, _, _)
ArrangeAll(st, preset_windows, k, all_windows, outcomes) ==
    IF k > Len(preset_windows) THEN st
    ELSE ArrangeAll(ArrangeOne(st, preset_windows[k], all_windows, outcomes[k]),
                    preset_windows, k + 1, all_windows, outcomes)

\* ------------------------------------------------------------------------
\* The state before any call

NoOp == [name |-> "init"]
NoResult == [raised |-> FALSE, value |-> [none |-> TRUE]]

\* no window open, nothing stored, no call made yet; the hardware is one of configs
InitWorld(configs) ==
    /\ windows = [i \in WindowIds |-> <<>>]
    /\ focused = 0
    /\ hw \in configs
    /\ changes = 0
    /\ preset_dir = FALSE
    /\ files = [f \in PresetFiles |-> <<>>]
    /\ clock = 0
    /\ op = NoOp
    /\ result = NoResult
    /\ cmds = <<>>

InitRest == InitWorld({1})

\* ------------------------------------------------------------------------
\* The classifier as a state machine: an argument list, then one application

InitClassify ==
    /\ displays \in DisplayLists
    /\ InitRest

\* one more display in the argument list
ConnectDisplay ==
    /\ op = NoOp
    /\ Len(displays) \in 1..(MaxDisplays - 1)
    /\ \E d \in OtherDisplayInputs : displays' = Append(displays, d)
    /\ UNCHANGED <<windows, focused, hw, changes, preset_dir, files, clock, op, result, cmds>>

CalculateDisplayCategory ==
    /\ op = NoOp
    /\ op' = [name |-> "_calculate_display_category"]
    /\ result' = Return(_calculate_display_category(displays))
    /\ UNCHANGED <<displays, windows, focused, hw, changes, preset_dir, files, clock, cmds>>

GetSizeCategory ==
    /\ op = NoOp
    /\ \E i \in 1..Len(displays) :
          /\ op' = [name |-> "_get_size_category", index |-> i]
          /\ result' = Return(_get_size_category(EffectiveOrResolution(displays[i])))
    /\ UNCHANGED <<displays, windows, focused, hw, changes, preset_dir, files, clock, cmds>>

NextClassify == ConnectDisplay \/ CalculateDisplayCategory \/ GetSizeCategory

SpecClassify == InitClassify /\ [][NextClassify]_vars

\* ------------------------------------------------------------------------
\* The user and the hardware

MaxChanges == 2

\* a change of the environment is no call: what the last call returned describes the
\* world before the change and is dropped
Unobserved ==
    /\ op' = [name |-> "environment"]
    /\ result' = [raised |-> FALSE, value |-> [none |-> TRUE]]
    /\ cmds' = <<>>

\* the user opens a window, one of inputs
Open(inputs) ==
    /\ changes < MaxChanges
    /\ \E i \in WindowIds, w \in inputs :
          /\ windows[i] = <<>>
          /\ windows' = [windows EXCEPT ![i] = <<w>>]
    /\ changes' = changes + 1
    /\ Unobserved
    /\ UNCHANGED <<displays, focused, hw, preset_dir, files, clock>>

\* the windows opened while presets are saved and loaded: two applications
PresetWindowInputs ==
    {[app_name |-> Slack, workspace |-> <<"1">>], [app_name |-> Slack, workspace |-> <<"2">>],
     [app_name |-> Code, workspace |-> <<"2">>], [app_name |-> Code, workspace |-> <<>>]}

OpenPresetWindow == Open(PresetWindowInputs)

\* the user closes a window
CloseWindow ==
    /\ changes < MaxChanges
    /\ \E i \in WindowIds :
          /\ windows[i] # <<>>
          /\ windows' = [windows EXCEPT ![i] = <<>>]
          /\ focused' = IF focused = i THEN 0 ELSE focused
    /\ changes' = changes + 1
    /\ Unobserved
    /\ UNCHANGED <<displays, hw, preset_dir, files, clock>>

\* a monitor is plugged in or pulled: another hardware configuration, one of configs
Replug(configs) ==
    /\ changes < MaxChanges
    /\ \E h \in configs : h # hw /\ hw' = h
    /\ changes' = changes + 1
    /\ Unobserved
    /\ UNCHANGED <<displays, windows, focused, preset_dir, files, clock>>

\* the hardware while presets are saved and loaded: no monitor, the laptop panel, one
\* monitor system_profiler does not know, the laptop with an external monitor
PresetHardware == {1, 2, 5, 6}

ChangePresetDisplays == Replug(PresetHardware)

\* the windows opened while windows are focused and moved: one of each application
AppWindowInputs == {[app_name |-> a, workspace |-> <<"1">>] : a \in AppNames}

OpenAppWindow == Open(AppWindowInputs)

\* the hardware while windows are moved: no monitor, one without a name, two and three
MoveHardware == {1, 5, 6, 7}

ChangeMoveDisplays == Replug(MoveHardware)

\* ------------------------------------------------------------------------
\* tools/display.py and tools/focus.py: the tool calls

MaxSaves == 2

CallGetDisplayInfo ==
    /\ op' = [name |-> "get_display_info"]
    /\ result' = Return(get_display_info(hw))
    /\ cmds' = <<QueryMonitors>>
    /\ UNCHANGED <<displays, windows, focused, hw, changes, preset_dir, files, clock>>

CallGetDisplayCategory ==
    /\ op' = [name |-> "get_display_category"]
    /\ result' = Return(get_display_category(hw))
    /\ cmds' = <<QueryMonitors>>
    /\ UNCHANGED <<displays, windows, focused, hw, changes, preset_dir, files, clock>>

\* save_focus_preset(name, description) for a name of names and a description of
\* descriptions
Save(names, descriptions) ==
    /\ clock < MaxSaves
    /\ \E name \in names, description \in descriptions :
          LET preset_data == PresetData(name, description, hw, windows, clock) IN
          /\ preset_dir' = TRUE
          /\ files' = WritePreset(files, name, preset_data)
          /\ op' = [name |-> "save_focus_preset", preset |-> name,
                    description |-> description]
          /\ result' = Return([success |-> TRUE,
                               preset |-> [name |-> name,
                                           description |-> preset_data.description,
                                           display_category |-> preset_data.display_category,
                                           created_at |-> preset_data.created_at,
                                           window_count |-> Len(list_windows(windows))]])
    /\ clock' = clock + 1
    /\ cmds' = <<QueryMonitors, QueryWindows, QueryMonitors>>
    /\ UNCHANGED <<displays, windows, focused, hw, changes>>

save_focus_preset == Save(PresetNames, Descriptions)

\* load_focus_preset(name, adapt_to_displays) called after the commands in issued: what
\* it returns or raises, the commands issued by then, and the window manager afterwards;
\* outcomes[k] is how the commands for the k-th stored entry end
LoadFocusPreset(name, adapt_to_displays, outcomes, issued) ==
    IF ~Exists(name)
    THEN [result |-> Raise("PRESET_NOT_FOUND", <<"Preset '", name, "' not found">>,
                           [available_presets |-> AvailablePresets]),
          cmds |-> issued, windows |-> windows, focused |-> focused]
    ELSE LET preset_data == files[PresetFile(name)][1]
             current_category == get_display_category(hw).category
             saved_category == preset_data.display_category
         IN  IF DisplayMismatch(current_category, saved_category, adapt_to_displays)
             THEN [result |-> Raise("DISPLAY_MISMATCH",
                                    <<"Display configuration changed from '", saved_category,
                                      "' to '", current_category, "'">>,
                                    [suggestion |->
                                        "Set adapt_to_displays=True to adapt the preset"]),
                   cmds |-> Append(issued, QueryMonitors),
                   windows |-> windows, focused |-> focused]
             ELSE LET st == ArrangeAll([cmds |-> issued \o <<QueryMonitors, QueryWindows>>,
                                        windows |-> windows, focused |-> focused, count |-> 0],
                                       preset_data.windows, 1, list_windows(windows), outcomes)
                  IN  [result |-> Return([success |-> TRUE, preset_loaded |-> name,
                                          adapted |-> (current_category # saved_category),
                                          windows_arranged |-> st.count]),
                       cmds |-> st.cmds, windows |-> st.windows, focused |-> st.focused]

\* how many window entries the stored preset has, 0 when there is none
StoredEntries(name) == IF Exists(name) THEN Len(files[PresetFile(name)][1].windows) ELSE 0

\* load_focus_preset(name, adapt_to_displays) for a name of names
Load(names) ==
    /\ \E name \in names, adapt_to_displays \in BOOLEAN :
       \E outcomes \in [1..StoredEntries(name) -> Outcomes] :
          LET done == LoadFocusPreset(name, adapt_to_displays, outcomes, <<>>) IN
          /\ op' = [name |-> "load_focus_preset", preset |-> name,
                    adapt_to_displays |-> adapt_to_displays]
          /\ result' = done.result
          /\ cmds' = done.cmds
          /\ windows' = done.windows
          /\ focused' = done.focused
    /\ UNCHANGED <<displays, hw, changes, preset_dir, files, clock>>

load_focus_preset == Load(PresetNames)

InitPreset ==
    /\ displays = <<>>
    /\ InitRest

NextPreset ==
    \/ OpenPresetWindow
    \/ CloseWindow
    \/ ChangePresetDisplays
    \/ CallGetDisplayInfo
    \/ CallGetDisplayCategory
    \/ save_focus_preset
    \/ load_focus_preset

SpecPreset == InitPreset /\ [][NextPreset]_vars

\* ------------------------------------------------------------------------
\* tools/window.py: focus_window

VALID_DIRECTIONS == {"left", "right", "up", "down"}

\* a check of the direction that raises the error of the other parameter checks
ValidateDirectionAsParameter(direction) ==
    IF direction \notin VALID_DIRECTIONS
    THEN <<Raise("INVALID_PARAMETERS", <<"Invalid direction '", direction, "'">>,
                 [provided |-> direction, valid_options |-> VALID_DIRECTIONS])>>
    ELSE <<>>

\* validate_direction(direction): <<>> when it passes, the error when it raises
validate_direction(direction) ==
    IF direction \notin VALID_DIRECTIONS
    THEN <<Raise("INVALID_DIRECTION", <<"Invalid direction '", direction, "'">>,
                 [provided |-> direction, valid_options |-> VALID_DIRECTIONS])>>
    ELSE <<>>

DirectionInputs == {<<>>, <<"left">>, <<"up">>, <<"sideways">>}

\* window ids a caller may pass: none, every id a window can have, and one no window has
WindowIdInputs == {<<>>} \cup {<<i>> : i \in 1..(MaxWindows + 1)}

\* a guard that lets a call with both parameters through
BothGivenIgnored(direction, window_id) == FALSE

\* direction is None and window_id is None; direction is not None and window_id is not None
NeitherGiven(direction, window_id) == direction = <<>> /\ window_id = <<>>
BothGiven(direction, window_id) == direction # <<>> /\ window_id # <<>>

\* [w.get("window-id") for w in available]
AvailableIds(wins) == [j \in 1..Len(list_windows(wins)) |-> list_windows(wins)[j].window_id]

\* the result focus_window builds from get_focused_window(); the window's title is left out
FocusedResult(wins, foc) ==
    LET now == get_focused_window(wins, foc) IN
    Return([success |-> TRUE,
            focused_window |-> IF now = <<>> THEN <<>>
                               ELSE <<[window_id |-> now[1].window_id,
                                       app_name |-> now[1].app_name]>>])

\* focus_window(direction, window_id): what it returns or raises, the commands it issued
\* and the focused window afterwards.  ok is the exit status of the focus command and
\* neighbour the window the window manager finds in the direction
FocusWindow(direction, window_id, ok, neighbour) ==
    IF NeitherGiven(direction, window_id)
    THEN [result |-> Raise("INVALID_PARAMETERS",
                           "Either 'direction' or 'window_id' must be provided",
                           [provided_direction |-> direction,
                            provided_window_id |-> window_id]),
          cmds |-> <<>>, focused |-> focused]
    ELSE IF BothGiven(direction, window_id)
    THEN [result |-> Raise("INVALID_PARAMETERS",
                           "Cannot specify both 'direction' and 'window_id'",
                           [provided_direction |-> direction,
                            provided_window_id |-> window_id]),
          cmds |-> <<>>, focused |-> focused]
    ELSE IF direction # <<>>
    THEN IF validate_direction(direction[1]) # <<>>
         THEN [result |-> validate_direction(direction[1])[1], cmds |-> <<>>,
               focused |-> focused]
         ELSE IF ~ok
         THEN [result |-> CommandFailed(<<"focus", direction[1]>>),
               cmds |-> <<Command(<<"focus", direction[1]>>, FALSE)>>, focused |-> focused]
         ELSE [result |-> FocusedResult(windows, neighbour),
               cmds |-> <<Command(<<"focus", direction[1]>>, TRUE), QueryFocused>>,
               focused |-> neighbour]
    ELSE IF get_window_by_id(windows, window_id[1]) = <<>>
         THEN [result |-> Raise("WINDOW_NOT_FOUND",
                                <<"Window with ID ", window_id[1], " not found">>,
                                [requested_window_id |-> window_id[1],
                                 available_windows |-> AvailableIds(windows)]),
               cmds |-> <<QueryWindows, QueryWindows>>, focused |-> focused]
         ELSE LET argv == <<"focus", "--window-id", Digit(window_id[1])>> IN
              IF ~ok
              THEN [result |-> CommandFailed(argv),
                    cmds |-> <<QueryWindows, Command(argv, FALSE)>>, focused |-> focused]
              ELSE [result |-> FocusedResult(windows, window_id[1]),
                    cmds |-> <<QueryWindows, Command(argv, TRUE), QueryFocused>>,
                    focused |-> window_id[1]]

\* the windows the window manager may find in a direction: any open window
Neighbours == {i \in WindowIds : windows[i] # <<>>}

\* focus_window(direction, window_id), its arguments taken from the two sets
Focus(directions, window_ids) ==
    /\ \E direction \in directions, window_id \in window_ids, ok \in BOOLEAN :
       \E neighbour \in (IF Neighbours = {} THEN {focused} ELSE Neighbours) :
          LET done == FocusWindow(direction, window_id, ok, neighbour) IN
          /\ op' = [name |-> "focus_window", direction |-> direction,
                    window_id |-> window_id]
          /\ result' = done.result
          /\ cmds' = done.cmds
          /\ focused' = done.focused
    /\ UNCHANGED <<displays, windows, hw, changes, preset_dir, files, clock>>

focus_window == Focus(DirectionInputs, WindowIdInputs)

\* ------------------------------------------------------------------------
\* tools/focus.py: move_app_category_to_monitor

CategoryInputs == {"communication", "games"}
MonitorInputs == {"primary", "secondary", "tertiary", "2", "0"}
LayoutInputs == {"tiled", "floating"}

\* valid_layouts, and layout_map
MoveLayouts == {"tiled", "accordion", "stacked"}
LayoutMap(layout) ==
    CASE layout = "tiled" -> "h_tiles"
      [] layout = "accordion" -> "h_accordion"
      [] layout = "stacked" -> "v_accordion"
      [] OTHER -> "h_tiles"

\* the name of the monitor the caller means, <<>> when there is none
TargetMonitor(monitor, monitors) ==
    IF monitor = "primary" THEN monitors[1].name
    ELSE IF monitor = "secondary" /\ Len(monitors) >= 2 THEN monitors[2].name
    ELSE IF monitor = "tertiary" /\ Len(monitors) >= 3 THEN monitors[3].name
    ELSE IF IsDigit(monitor)
    THEN LET idx == ParseInt(monitor) - 1 IN
         IF 0 <= idx /\ idx < Len(monitors) THEN monitors[idx + 1].name ELSE <<>>
    ELSE <<>>

\* how the focus and the layout command after the loop end
TailOutcomes == {"ok", "focus_fails", "layout_fails"}

\* the applications windows have, by the category whose test they pass
CategoryMembers ==
    [category \in DOMAIN APP_CATEGORIES |->
        {app_name \in AppNames : InCategoryApps(app_name, APP_CATEGORIES[category])}]

\* a loop body that records every window of the category, moved or not
MoveOneListsAttempts(st, window, category, target_monitor, outcomes) ==
    IF window.app_name \notin CategoryMembers[category] THEN st
    ELSE [st EXCEPT !.moved = Append(@, [window_id |-> window.window_id,
                                         app_name |-> window.app_name])]

\* the body of the loop for one window: focus it, move it, record it when no command raised
MoveOne(st, window, category, target_monitor, outcomes) ==
    IF window.app_name \notin CategoryMembers[category] THEN st
    ELSE LET outcome == outcomes[window.window_id]
             focus_ok == outcome # "focus_fails"
             st1 == RunCommand(st, <<"focus", "--window-id", Digit(window.window_id)>>,
                               focus_ok)
         IN  IF ~focus_ok THEN st1
             ELSE LET move_ok == outcome # "move_fails"
                      st2 == RunCommand(st1, <<"move-node-to-monitor", target_monitor>>,
                                        move_ok)
                  IN  IF ~move_ok THEN st2
                      ELSE [st2 EXCEPT !.moved = Append(@, [window_id |-> window.window_id,
                                                            app_name |-> window.app_name])]

\* for window in all_windows
RECURSIVE MoveAll(_, _, _, _, _, _)
MoveAll(st, all_windows, k, category, target_monitor, outcomes) ==
    IF k > Len(all_windows) THEN st
    ELSE MoveAll(MoveOne(st, all_windows[k], category, target_monitor, outcomes),
                 all_windows, k + 1, category, target_monitor, outcomes)

\* if windows_moved: focus the first moved window and apply the layout, errors ignored
ApplyMovedLayout(st, layout, tail) ==
    IF st.moved = <<>> THEN st
    ELSE LET focus_ok == tail # "focus_fails"
             st1 == RunCommand(st, <<"focus", "--window-id", Digit(st.moved[1].window_id)>>,
                               focus_ok)
         IN  IF ~focus_ok THEN st1
             ELSE RunCommand(st1, <<"layout", LayoutMap(layout)>>, tail # "layout_fails")

\* what move_app_category_to_monitor(category, monitor, layout) does before its loop: the
\* error it raises and the commands issued by then
MoveChecks(category, monitor, layout) ==
    LET monitors == list_monitors(hw) IN
    IF category \notin DOMAIN APP_CATEGORIES
    THEN [result |-> Raise("INVALID_PARAMETERS", <<"Invalid category '", category, "'">>,
                           [valid_options |-> CategoryNames]),
          cmds |-> <<>>]
    ELSE IF layout \notin MoveLayouts
    THEN [result |-> Raise("INVALID_PARAMETERS", <<"Invalid layout '", layout, "'">>,
                           [valid_options |-> MoveLayouts]),
          cmds |-> <<>>]
    ELSE IF monitors = <<>>
    THEN [result |-> Raise("NO_MONITORS", "No monitors found", [none |-> TRUE]),
          cmds |-> <<QueryMonitors>>]
    ELSE IF TargetMonitor(monitor, monitors) \in {<<>>, <<<<>>>>}
    THEN [result |-> Raise("MONITOR_NOT_FOUND", <<"Monitor '", monitor, "' not found">>,
                           [available_monitors |->
                               [i \in 1..Len(monitors) |-> monitors[i].name]]),
          cmds |-> <<QueryMonitors>>]
    ELSE [result |-> NoResult, cmds |-> <<QueryMonitors, QueryWindows>>]

\* the open windows the loop has commands for
MoveCandidates(category) ==
    {i \in Neighbours : windows[i][1].app_name \in CategoryMembers[category]}

\* move_app_category_to_monitor(category, monitor, layout): the checks, then the loop,
\* where outcomes[i] is how the commands for window i end, then the layout, where tail is
\* how its commands end
move_app_category_to_monitor ==
    /\ \E category \in CategoryInputs, monitor \in MonitorInputs, layout \in LayoutInputs :
          LET checked == MoveChecks(category, monitor, layout) IN
          /\ op' = [name |-> "move_app_category_to_monitor", category |-> category,
                    monitor |-> monitor, layout |-> layout]
          /\ IF checked.result.raised
             THEN /\ result' = checked.result
                  /\ cmds' = checked.cmds
                  /\ UNCHANGED <<windows, focused>>
             ELSE \E outcomes \in [MoveCandidates(category) -> Outcomes] :
                     LET looped == MoveAll([cmds |-> checked.cmds, windows |-> windows,
                                            focused |-> focused, moved |-> <<>>],
                                           list_windows(windows), 1, category,
                                           TargetMonitor(monitor, list_monitors(hw))[1],
                                           outcomes)
                     IN  \E tail \in (IF looped.moved = <<>> THEN {"ok"} ELSE TailOutcomes) :
                            LET st == ApplyMovedLayout(looped, layout, tail) IN
                            /\ result' = Return([success |-> TRUE, category |-> category,
                                                 monitor |-> monitor,
                                                 windows_moved |-> st.moved,
                                                 layout_applied |-> layout])
                            /\ cmds' = st.cmds
                            /\ windows' = st.windows
                            /\ focused' = st.focused
    /\ UNCHANGED <<displays, hw, changes, preset_dir, files, clock>>

\* ------------------------------------------------------------------------
\* focus_window and move_app_category_to_monitor while windows open and close and
\* monitors come and go

NextWindows ==
    \/ OpenAppWindow
    \/ CloseWindow
    \/ ChangeMoveDisplays
    \/ focus_window
    \/ move_app_category_to_monitor

InitWindows ==
    /\ displays = <<>>
    /\ InitWorld(MoveHardware)

SpecWindows == InitWindows /\ [][NextWindows]_vars

\* ------------------------------------------------------------------------
\* tools/focus.py: apply_focus_preset

Auto == <<"a", "u", "t", "o">>
SmallSingleFocus == <<"s", "m", "a", "l", "l", "_", "s", "i", "n", "g", "l", "e", "_", "f", "o", "c", "u", "s">>
MediumSplit == <<"m", "e", "d", "i", "u", "m", "_", "s", "p", "l", "i", "t">>
LargeCentered == <<"l", "a", "r", "g", "e", "_", "c", "e", "n", "t", "e", "r", "e", "d">>
DualMonitorFocus == <<"d", "u", "a", "l", "_", "m", "o", "n", "i", "t", "o", "r", "_", "f", "o", "c", "u", "s">>
TripleMonitorFocus == <<"t", "r", "i", "p", "l", "e", "_", "m", "o", "n", "i", "t", "o", "r", "_", "f", "o", "c", "u", "s">>

Safari == <<"S", "a", "f", "a", "r", "i">>

\* a table that gives a large single display the split layout
PresetForLargeSplit(category) ==
    CASE category = "small_single" -> SmallSingleFocus
      [] category = "dual_display" -> DualMonitorFocus
      [] category = "triple_plus" -> TripleMonitorFocus
      [] OTHER -> MediumSplit

\* preset_map.get(category, "medium_split")
PresetFor(category) ==
    CASE category = "small_single" -> SmallSingleFocus
      [] category = "medium_single" -> MediumSplit
      [] category = "large_single" -> LargeCentered
      [] category = "dual_display" -> DualMonitorFocus
      [] category = "triple_plus" -> TripleMonitorFocus
      [] OTHER -> MediumSplit

\* the preset name apply_focus_preset goes on with
ResolvePreset(preset, category) == IF preset = Auto THEN PresetFor(category) ELSE preset

\* _get_app_category of the applications windows have
AppCategoryOf == [app_name \in AppNames \cup {Safari} |-> _get_app_category(app_name)]

\* how many of the commands change the window manager: all but the listings
Mutations(issued) ==
    Cardinality({j \in 1..Len(issued) :
                    issued[j].argv[1] \notin {"list-windows", "list-workspaces",
                                              "list-monitors"}})

\* run_aerospace_command outside any try: an error ends the call.  fails holds the
\* positions, among the commands that change the window manager, of those that fail
Must(st, argv, fails) ==
    IF st.error # <<>> THEN st
    ELSE LET ok == (Mutations(st.cmds) + 1) \notin fails
             st1 == RunCommand(st, argv, ok)
         IN  IF ok THEN st1 ELSE [st1 EXCEPT !.error = <<CommandFailed(argv)>>]

\* try: focus the window, run argv, append entry to the list; except AeroSpaceError: pass
TryMove(st, window, argv, fails, list, entry) ==
    IF st.error # <<>> THEN st
    ELSE LET focus_ok == (Mutations(st.cmds) + 1) \notin fails
             st1 == RunCommand(st, <<"focus", "--window-id", Digit(window.window_id)>>,
                               focus_ok)
         IN  IF ~focus_ok THEN st1
             ELSE LET move_ok == (Mutations(st1.cmds) + 1) \notin fails
                      st2 == RunCommand(st1, argv, move_ok)
                  IN  IF ~move_ok THEN st2 ELSE [st2 EXCEPT ![list] = Append(@, entry)]

\* for ref_win in reference_windows
RECURSIVE MoveReferences(_, _, _, _)
MoveReferences(st, reference_windows, k, fails) ==
    IF k > Len(reference_windows) THEN st
    ELSE MoveReferences(TryMove(st, reference_windows[k], <<"move-node-to-monitor", "next">>,
                                fails, "reference_windows",
                                [window_id |-> reference_windows[k].window_id,
                                 monitor |-> 2, arrangement |-> "tiled"]),
                        reference_windows, k + 1, fails)

\* for hidden_win in hidden_windows
RECURSIVE HideWindows(_, _, _, _)
HideWindows(st, hidden_windows, k, fails) ==
    IF k > Len(hidden_windows) THEN st
    ELSE HideWindows(TryMove(st, hidden_windows[k],
                             <<"move-node-to-workspace", "communication">>,
                             fails, "hidden_windows",
                             [window_id |-> hidden_windows[k].window_id,
                              moved_to_workspace |-> "communication"]),
                     hidden_windows, k + 1, fails)

\* the windows other than the focus window that are reference windows, and those to hide
IsReference(window, reference_apps) ==
    \/ \E i \in 1..Len(reference_apps) : reference_apps[i] = window.app_name
    \/ AppCategoryOf[window.app_name] = <<"reference">>

ReferenceWindows(all_windows, focus_window_id, reference_apps) ==
    SelectSeq(all_windows,
              LAMBDA w : w.window_id # focus_window_id /\ IsReference(w, reference_apps))

HiddenWindows(all_windows, focus_window_id, reference_apps, hide_communication) ==
    SelectSeq(all_windows,
              LAMBDA w : /\ w.window_id # focus_window_id
                         /\ ~IsReference(w, reference_apps)
                         /\ hide_communication
                         /\ AppCategoryOf[w.app_name] = <<"communication">>)

\* the layout of the built-in preset
ApplyLayout(st, preset, monitors, reference_windows, fails) ==
    IF preset = SmallSingleFocus
    THEN [Must(st, <<"fullscreen">>, fails) EXCEPT !.arrangement = "fullscreen"]
    ELSE IF preset = MediumSplit
    THEN [Must(Must(st, <<"layout", "h_tiles">>, fails), <<"resize", "width", "+30%">>, fails)
             EXCEPT !.arrangement = "tiled_70"]
    ELSE IF preset = LargeCentered
    THEN [Must(st, <<"layout", "h_tiles">>, fails) EXCEPT !.arrangement = "centered"]
    ELSE IF preset = DualMonitorFocus /\ Len(monitors) >= 2
    THEN MoveReferences([Must(st, <<"fullscreen">>, fails) EXCEPT !.arrangement = "fullscreen"],
                        reference_windows, 1, fails)
    ELSE IF preset = TripleMonitorFocus /\ Len(monitors) >= 3
    THEN [Must(st, <<"fullscreen">>, fails) EXCEPT !.arrangement = "fullscreen"]
    ELSE st

\* apply_focus_preset when no stored preset has the resolved name: what it returns or
\* raises, the commands issued and the window manager afterwards
ApplyBuiltIn(preset, category, focus_window_id, reference_apps, hide_communication, fails) ==
    LET given == focus_window_id # <<>>
        focus_win == IF given THEN get_window_by_id(windows, focus_window_id[1])
                     ELSE get_focused_window(windows, focused)
    IN
    IF given /\ focus_win = <<>>
    THEN [result |-> Raise("WINDOW_NOT_FOUND",
                           <<"Window with ID ", focus_window_id[1], " not found">>,
                           [requested_window_id |-> focus_window_id[1],
                            available_windows |-> AvailableIds(windows)]),
          cmds |-> <<QueryMonitors, QueryWindows, QueryWindows>>,
          windows |-> windows, focused |-> focused]
    ELSE IF focus_win = <<>>
    THEN [result |-> Raise("NO_WINDOW_FOCUSED", "No window is currently focused",
                           [suggestion |-> "Focus a window first"]),
          cmds |-> <<QueryMonitors, QueryFocused>>,
          windows |-> windows, focused |-> focused]
    ELSE LET id == focus_win[1].window_id
             all_windows == list_windows(windows)
             monitors == list_monitors(hw)
             reference_windows == ReferenceWindows(all_windows, id, reference_apps)
             hidden_windows == HiddenWindows(all_windows, id, reference_apps,
                                             hide_communication)
             focus == <<"focus", "--window-id", Digit(id)>>
             st0 == [cmds |-> <<QueryMonitors, IF given THEN QueryWindows ELSE QueryFocused,
                                QueryWindows, QueryMonitors>>,
                     windows |-> windows, focused |-> focused, error |-> <<>>,
                     arrangement |-> "normal", reference_windows |-> <<>>,
                     hidden_windows |-> <<>>]
             st1 == ApplyLayout(Must(st0, focus, fails), preset, monitors,
                                reference_windows, fails)
             st2 == IF hide_communication THEN HideWindows(st1, hidden_windows, 1, fails)
                    ELSE st1
             st == Must(st2, focus, fails)
         IN  [result |-> IF st.error # <<>> THEN st.error[1]
                         ELSE Return([success |-> TRUE, preset_applied |-> preset,
                                      display_category |-> category,
                                      layout |-> [focus_window |->
                                                     [window_id |-> id, monitor |-> 1,
                                                      arrangement |-> st.arrangement],
                                                  reference_windows |-> st.reference_windows,
                                                  hidden_windows |-> st.hidden_windows]]),
              cmds |-> st.cmds, windows |-> st.windows, focused |-> st.focused]

MaxFailures == 1

\* the sets of failing commands tried for a call that issues n commands when none fails
FailureSets(n) == {fails \in SUBSET (1..n) : Cardinality(fails) <= MaxFailures}

\* a delegation that does not adapt the stored preset to the displays
LoadStoredAsSaved(name, outcomes) == LoadFocusPreset(name, FALSE, outcomes, <<QueryMonitors>>)

\* return await load_focus_preset(name=preset), after the category was asked for
LoadStored(name, outcomes) == LoadFocusPreset(name, TRUE, outcomes, <<QueryMonitors>>)

\* apply_focus_preset(preset, focus_window_id, reference_apps, hide_communication), its
\* arguments taken from the four sets: the stored preset of the resolved name is loaded
\* when there is one, the built-in layout applied otherwise
Apply(presets, window_ids, reference_lists, hides) ==
    /\ \E preset \in presets, focus_window_id \in window_ids,
          reference_apps \in reference_lists, hide_communication \in hides :
          LET category == get_display_category(hw).category
              resolved == ResolvePreset(preset, category)
              finish(done) ==
                  /\ op' = [name |-> "apply_focus_preset", preset |-> preset,
                            resolved |-> resolved, focus_window_id |-> focus_window_id,
                            reference_apps |-> reference_apps,
                            hide_communication |-> hide_communication]
                  /\ result' = done.result
                  /\ cmds' = done.cmds
                  /\ windows' = done.windows
                  /\ focused' = done.focused
          IN  IF Exists(resolved)
              THEN \E outcomes \in [1..StoredEntries(resolved) -> Outcomes] :
                      finish(LoadStored(resolved, outcomes))
              ELSE LET smooth == ApplyBuiltIn(resolved, category, focus_window_id,
                                              reference_apps, hide_communication, {})
                   IN  \E fails \in FailureSets(Mutations(smooth.cmds)) :
                          finish(ApplyBuiltIn(resolved, category, focus_window_id,
                                              reference_apps, hide_communication, fails))
    /\ UNCHANGED <<displays, hw, changes, preset_dir, files, clock>>

\* ------------------------------------------------------------------------
\* The display category while monitors come and go between the calls that use it

\* the hardware: the laptop panel, alone, with one and with two external monitors
DisplayHardware == {2, 6, 7}

ChangeCategory == Replug(DisplayHardware)

\* apply_focus_preset for the preset of the category or a stored one, for the focused
\* window or the first
apply_focus_preset == Apply({Auto, Work}, {<<>>, <<1>>}, {<<>>}, BOOLEAN)

SaveWork == Save({Work}, {<<>>})

LoadWork == Load({Work})

\* the server starts on a desktop with two windows open, one to hide and one for
\* reference, the first of them focused
InitDisplay ==
    /\ displays = <<>>
    /\ windows = [i \in WindowIds |->
                     IF i = 1 THEN <<[app_name |-> Slack, workspace |-> <<"1">>]>>
                     ELSE IF i = 2 THEN <<[app_name |-> Safari, workspace |-> <<"1">>]>>
                     ELSE <<>>]
    /\ focused = 1
    /\ hw \in DisplayHardware
    /\ changes = 0
    /\ preset_dir = FALSE
    /\ files = [f \in PresetFiles |-> <<>>]
    /\ clock = 0
    /\ op = NoOp
    /\ result = NoResult
    /\ cmds = <<>>

NextDisplay ==
    \/ ChangeCategory
    \/ CallGetDisplayInfo
    \/ CallGetDisplayCategory
    \/ SaveWork
    \/ LoadWork
    \/ apply_focus_preset

SpecDisplay == InitDisplay /\ [][NextDisplay]_vars

\* ------------------------------------------------------------------------
\* The classifier's claims, under SpecClassify

Classified == op.name = "_calculate_display_category"

\* C1: the category is unknown for no display, dual_display for exactly two and
\* triple_plus for three or more, whatever the displays hold; for exactly one display it
\* is one of the three single categories.
C1_CategoryByCount ==
    Classified =>
        LET category == result.value[1] IN
        /\ Len(displays) = 0 => category = "unknown"
        /\ Len(displays) = 2 => category = "dual_display"
        /\ Len(displays) >= 3 => category = "triple_plus"
        /\ Len(displays) = 1 => category \in {"small_single", "medium_single", "large_single"}

\* three displays, the first a 13" one with no resolution at all, classified triple_plus
C1_Witness ==
    /\ Classified
    /\ Len(displays) = 3
    /\ displays[1].size_inches = <<130>>
    /\ displays[1].resolution = <<>>
    /\ displays[2].size_inches = <<270>>
    /\ result.value[1] = "triple_plus"

C3_Pixels(display) ==
    LET r == IF display.effective_resolution \notin {<<>>, <<EmptyDict>>}
             THEN display.effective_resolution[1]
             ELSE IF display.resolution = <<>> THEN EmptyDict ELSE display.resolution[1]
    IN  (IF r.width = <<>> THEN 0 ELSE r.width[1]) * (IF r.height = <<>> THEN 0 ELSE r.height[1])

\* C3: one display with size_inches absent or zero is classified by width * height
\* alone: large from 3,686,400, medium from 1,036,800, small below; _get_size_category
\* uses the same two thresholds.
C3_SingleByPixelsOnly ==
    /\ (Classified /\ Len(displays) = 1 /\ displays[1].size_inches \in {<<>>, <<0>>}) =>
           result.value[1] = IF C3_Pixels(displays[1]) >= 3686400 THEN "large_single"
                             ELSE IF C3_Pixels(displays[1]) >= 1036800 THEN "medium_single"
                             ELSE "small_single"
    /\ op.name = "_get_size_category" =>
           result.value = IF C3_Pixels(displays[op.index]) >= 3686400 THEN "large"
                          ELSE IF C3_Pixels(displays[op.index]) >= 1036800 THEN "medium"
                          ELSE "small"

\* a display of unknown size and exactly 1280 x 810 = 1,036,800 pixels is medium_single
C3_Witness ==
    /\ Classified
    /\ Len(displays) = 1
    /\ displays[1].size_inches = <<>>
    /\ displays[1].effective_resolution = <<Res(1280, 810)>>
    /\ result.value[1] = "medium_single"

\* ------------------------------------------------------------------------
\* The preset store's claims, under SpecPreset

Loading == op.name = "load_focus_preset"

\* the document load_focus_preset read: no load writes the store
Stored == files[PresetFile(op.preset)][1]

\* the classification of the displays get_display_info lists for the connected hardware
CurrentCategory == _calculate_display_category(get_display_info(hw).displays)[1]

\* a load of a stored preset while the display category is the stored one
C4_RoundTrip == Loading /\ Exists(op.preset) /\ Stored.display_category = CurrentCategory

\* some live window is a window of the application
C4_Live(app_name) ==
    \E i \in WindowIds : windows[i] # <<>> /\ windows[i][1].app_name = app_name

\* the recorded entries whose application has a live window, in the recorded order, and
\* the focus commands of the load, in the order issued: the i-th of the one belongs to
\* the i-th of the other
C4_Matched ==
    SelectSeq([k \in 1..Len(Stored.windows) |-> k],
              LAMBDA k : C4_Live(Stored.windows[k].app_name))
C4_Focuses ==
    SelectSeq([j \in 1..Len(cmds) |-> j], LAMBDA j : cmds[j].argv[1] = "focus")

\* the i-th matching entry's focus command names a live window of the entry's application
C4_Targets(i) ==
    LET entry == Stored.windows[C4_Matched[i]]
        focus == cmds[C4_Focuses[i]]
    IN  /\ Len(focus.argv) = 3
        /\ focus.argv[2] = "--window-id"
        /\ \E w \in WindowIds : /\ focus.argv[3] = Digit(w)
                                /\ windows[w] # <<>>
                                /\ windows[w][1].app_name = entry.app_name

\* the command after the i-th focus command is the move to the entry's workspace
C4_MoveIssued(i) ==
    LET entry == Stored.windows[C4_Matched[i]]
        j == C4_Focuses[i]
    IN  /\ j < Len(cmds)
        /\ cmds[j + 1].argv = <<"move-node-to-workspace", entry.workspace[1]>>

\* the i-th matching entry is reapplied: its window focused and, when the entry records
\* a workspace, moved there
C4_Reapplied(i) ==
    /\ C4_Targets(i)
    /\ cmds[C4_Focuses[i]].ok
    /\ Stored.windows[C4_Matched[i]].workspace # <<>> =>
          C4_MoveIssued(i) /\ cmds[C4_Focuses[i] + 1].ok

\* the i-th matching entry is attempted: its window's focus command issued, and the move
\* issued exactly when the focus succeeded and the entry records a workspace
C4_Attempted(i) ==
    LET j == C4_Focuses[i]
        moves == cmds[j].ok /\ Stored.windows[C4_Matched[i]].workspace # <<>>
    IN  /\ C4_Targets(i)
        /\ moves => C4_MoveIssued(i)
        /\ ~moves => (j = Len(cmds) \/ cmds[j + 1].argv[1] = "focus")

\* C4 as stated: a load of a saved preset under the unchanged display category reapplies
\* every recorded window whose application has a live window, counts each of them in
\* windows_arranged and reports adapted = false.
C4_ReappliesEveryMatch ==
    C4_RoundTrip =>
        /\ ~result.raised
        /\ Len(C4_Focuses) = Len(C4_Matched)
        /\ \A i \in 1..Len(C4_Matched) : C4_Reapplied(i)
        /\ result.value.windows_arranged = Len(C4_Matched)
        /\ result.value.adapted = FALSE

\* C4: a load of a saved preset under the unchanged display category attempts every
\* recorded window whose application has a live window, in the recorded order; it
\* reapplies and counts in windows_arranged exactly those whose focus command and, when a
\* workspace is recorded, move command succeed, and it reports adapted = false.
C4_ReappliesEveryMatchThatSucceeds ==
    C4_RoundTrip =>
        /\ ~result.raised
        /\ Len(C4_Focuses) = Len(C4_Matched)
        /\ \A i \in 1..Len(C4_Matched) : C4_Attempted(i)
        /\ result.value.windows_arranged =
              Cardinality({i \in 1..Len(C4_Matched) : C4_Reapplied(i)})
        /\ result.value.adapted = FALSE

\* two recorded windows, both with a live window; the move of one fails and only the
\* other is counted
C4_Witness ==
    /\ C4_RoundTrip
    /\ Len(Stored.windows) = 2
    /\ Len(C4_Matched) = 2
    /\ \E j \in 1..Len(cmds) : cmds[j].argv[1] = "move-node-to-workspace" /\ ~cmds[j].ok
    /\ result.value.windows_arranged = 1

\* what save_focus_preset has just stored is the snapshot of the present windows,
\* display category, monitors and description, under the name saved
C5_Snapshot ==
    op.name = "save_focus_preset" =>
        LET stored == files[PresetFile(op.preset)]
            live == list_windows(windows)
            monitors == list_monitors(hw)
        IN  /\ preset_dir
            /\ Len(stored) = 1
            /\ stored[1].name = op.preset
            /\ Len(stored[1].windows) = Len(live)
            /\ \A j \in 1..Len(live) :
                  /\ stored[1].windows[j].app_name = live[j].app_name
                  /\ stored[1].windows[j].workspace = live[j].workspace
            /\ stored[1].display_category = CurrentCategory
            /\ Len(stored[1].monitors) = Len(monitors)
            /\ \A i \in 1..Len(monitors) : stored[1].monitors[i] = monitors[i].name
            /\ stored[1].description = IF op.description = <<>>
                                       THEN <<"Focus preset: ", op.preset>>
                                       ELSE <<op.description[1], <<>>>>
            /\ stored[1].created_at = clock - 1

\* a successful load issues focus and move commands for entries of the stored document
\* only: one focus command per stored entry with a live window, each move to the
\* workspace of such an entry
C5_LoadsStored ==
    (Loading /\ ~result.raised) =>
        /\ Len(C4_Focuses) = Len(C4_Matched)
        /\ \A i \in 1..Len(C4_Matched) : C4_Targets(i)
        /\ \A j \in 1..Len(cmds) :
              cmds[j].argv[1] = "move-node-to-workspace" =>
                  \E k \in 1..Len(Stored.windows) : Stored.windows[k].workspace = <<cmds[j].argv[2]>>

\* a save leaves every file but the one of its name as it was
C5_OthersKept ==
    op'.name = "save_focus_preset" =>
        \A f \in PresetFiles \ {PresetFile(op'.preset)} : files'[f] = files[f]

\* C5: after every save under a name, the second as the first, the store holds exactly
\* one record under that name and it is that save's snapshot; a load uses the entries of
\* the stored record only; no save changes the record of another name.
C5_SecondSaveReplacesFirst == [](C5_Snapshot /\ C5_LoadsStored) /\ [][C5_OthersKept]_vars

\* both saves went to one name and the other name has no record; a load then arranged a
\* window from the second snapshot
C5_Witness ==
    /\ Loading
    /\ ~result.raised
    /\ clock = 2
    /\ Cardinality({f \in PresetFiles : files[f] # <<>>}) = 1
    /\ Stored.created_at = 1
    /\ result.value.windows_arranged >= 1

\* C6 as stated: a load of a name with no stored record raises PRESET_NOT_FOUND, its
\* details list exactly the names of the presets stored, and no command was issued.
C6_NotFoundListsStoredNames ==
    (Loading /\ ~(preset_dir /\ files[PresetFile(op.preset)] # <<>>)) =>
        /\ result.raised
        /\ result.error.code = "PRESET_NOT_FOUND"
        /\ result.error.details.available_presets =
              {n \in PresetNames : preset_dir /\ files[PresetFile(n)] # <<>>}
        /\ cmds = <<>>

\* no focus or move command among the commands of the call
C7_NothingArranged ==
    \A j \in 1..Len(cmds) : cmds[j].argv[1] \notin {"focus", "move-node-to-workspace"}

\* C7: when the stored category differs from the current one, a load with
\* adapt_to_displays = false raises DISPLAY_MISMATCH with no window focused or moved and a
\* load with adapt_to_displays = true succeeds with adapted = true; a successful load
\* reports adapted = true exactly when the two categories differ.
C7_MismatchUnlessAdapted ==
    (Loading /\ Exists(op.preset)) =>
        LET differ == Stored.display_category # CurrentCategory IN
        /\ (differ /\ ~op.adapt_to_displays) =>
              /\ result.raised
              /\ result.error.code = "DISPLAY_MISMATCH"
              /\ C7_NothingArranged
        /\ (differ /\ op.adapt_to_displays) =>
              /\ ~result.raised
              /\ result.value.success
              /\ result.value.adapted = TRUE
        /\ ~result.raised => result.value.adapted = differ

\* a preset saved before any monitor was listed, with a window that is still open, loaded
\* with adapt_to_displays = false once the laptop panel is listed
C7_Witness ==
    /\ Loading
    /\ Exists(op.preset)
    /\ ~op.adapt_to_displays
    /\ Stored.display_category = "unknown"
    /\ CurrentCategory = "small_single"
    /\ Len(C4_Matched) >= 1
    /\ result.raised
    /\ result.error.code = "DISPLAY_MISMATCH"

\* the same preset loaded with adapt_to_displays = true: adapted, its window arranged
C7_WitnessAdapted ==
    /\ Loading
    /\ Exists(op.preset)
    /\ op.adapt_to_displays
    /\ Stored.display_category # CurrentCategory
    /\ ~result.raised
    /\ result.value.adapted
    /\ result.value.windows_arranged >= 1

\* ------------------------------------------------------------------------
\* The claims on focus_window and move_app_category_to_monitor, under SpecWindows

\* C9: focus_window called with neither direction nor window_id, or with both, raises
\* INVALID_PARAMETERS and has issued no command to the window manager.
C9_NeitherOrBothInvalid ==
    (/\ op.name = "focus_window"
     /\ \/ op.direction = <<>> /\ op.window_id = <<>>
        \/ op.direction # <<>> /\ op.window_id # <<>>) =>
        /\ result.raised
        /\ result.error.code = "INVALID_PARAMETERS"
        /\ cmds = <<>>

\* both given, each of them valid alone: a direction of the table and an open window
C9_Witness ==
    /\ op.name = "focus_window"
    /\ op.direction = <<"left">>
    /\ op.window_id # <<>>
    /\ op.window_id[1] \in WindowIds
    /\ windows[op.window_id[1]] # <<>>
    /\ result.raised
    /\ result.error.code = "INVALID_PARAMETERS"

\* neither given
C9_WitnessNeither ==
    /\ op.name = "focus_window"
    /\ op.direction = <<>>
    /\ op.window_id = <<>>
    /\ result.raised

Moving == op.name = "move_app_category_to_monitor"

\* the application belongs to the category: its name is listed, or contains a listed
\* name when case is ignored
C10_Belongs(app_name, category) ==
    \E k \in 1..Len(APP_CATEGORIES[category]) :
        LET listed == APP_CATEGORIES[category][k] IN
        \/ listed = app_name
        \/ \E i \in 0..(Len(app_name) - Len(listed)) :
              \A j \in 1..Len(listed) : LowerChar(app_name[i + j]) = LowerChar(listed[j])

\* the open windows of the category
C10_Members ==
    IF op.category \notin {"communication", "development", "reference", "media"} THEN {}
    ELSE {w \in WindowIds : windows[w] # <<>> /\ C10_Belongs(windows[w][1].app_name, op.category)}

\* where the first focus command for window w is among the commands, 0 when nowhere
C10_FocusAt(w) ==
    LET at == {j \in 1..Len(cmds) : /\ cmds[j].argv[1] = "focus"
                                    /\ cmds[j].argv = <<"focus", "--window-id", Digit(w)>>}
    IN  IF at = {} THEN 0 ELSE CHOOSE j \in at : \A k \in at : j <= k

\* the focus command for window w and the move command after it both succeeded
C10_Succeeded(w) ==
    LET j == C10_FocusAt(w) IN
    /\ j > 0
    /\ cmds[j].ok
    /\ j < Len(cmds)
    /\ cmds[j + 1].argv[1] = "move-node-to-monitor"
    /\ cmds[j + 1].ok

\* what the window manager did on the commands from the j-th on, foc being the window
\* focused before it: the pairs of a window and the monitor it was moved to
RECURSIVE C10_Replay(_, _, _)
C10_Replay(j, foc, moved) ==
    IF j > Len(cmds) THEN moved
    ELSE IF ~cmds[j].ok THEN C10_Replay(j + 1, foc, moved)
    ELSE IF cmds[j].argv[1] = "focus" /\ Len(cmds[j].argv) = 3
    THEN C10_Replay(j + 1, ParseInt(cmds[j].argv[3]), moved)
    ELSE IF cmds[j].argv[1] = "move-node-to-monitor"
    THEN C10_Replay(j + 1, foc, moved \cup {<<foc, cmds[j].argv[2]>>})
    ELSE C10_Replay(j + 1, foc, moved)

\* the name of the monitor the caller means
C10_Target ==
    LET monitors == list_monitors(hw) IN
    CASE op.monitor = "primary" -> monitors[1].name[1]
      [] op.monitor = "secondary" -> monitors[2].name[1]
      [] op.monitor = "tertiary" -> monitors[3].name[1]
      [] OTHER -> monitors[ParseInt(op.monitor)].name[1]

\* C10: move_app_category_to_monitor attempts exactly the open windows whose application
\* belongs to the category (listed name, or a listed name contained in it ignoring case);
\* the window manager moves, to the monitor meant, exactly those of them whose focus and
\* move command both succeed, and windows_moved lists exactly those, in the order listed;
\* with category communication, monitor secondary and exactly one such window, that
\* window is moved and windows_moved has length 1.
C10_MovesCategoryWindows ==
    Moving =>
        LET done == {w \in C10_Members : C10_Succeeded(w)}
            moved == C10_Replay(1, 0, {})
        IN  /\ {m[1] : m \in moved} = done
            /\ result.raised => moved = {} /\ C7_NothingArranged
            /\ ~result.raised =>
                  /\ \A w \in WindowIds : w \in C10_Members <=> C10_FocusAt(w) > 0
                  /\ \A w \in C10_Members :
                        cmds[C10_FocusAt(w)].ok =>
                            /\ C10_FocusAt(w) < Len(cmds)
                            /\ cmds[C10_FocusAt(w) + 1].argv[1] = "move-node-to-monitor"
                  /\ \A m \in moved : m[2] = C10_Target
                  /\ Len(result.value.windows_moved) = Cardinality(done)
                  /\ \A i \in 1..Len(result.value.windows_moved) :
                        LET entry == result.value.windows_moved[i] IN
                        /\ entry.window_id \in done
                        /\ entry.app_name = windows[entry.window_id][1].app_name
                        /\ i > 1 => result.value.windows_moved[i - 1].window_id < entry.window_id
            /\ (op.category = "communication" /\ op.monitor = "secondary"
                   /\ Cardinality(done) = 1) =>
                  /\ ~result.raised
                  /\ Len(result.value.windows_moved) = 1
                  /\ {result.value.windows_moved[1].window_id} = {m[1] : m \in moved}

\* a Slack window next to a Code window, the laptop panel and one external monitor:
\* communication to secondary moves the Slack window to the external monitor
C10_Witness ==
    /\ Moving
    /\ op.category = "communication"
    /\ op.monitor = "secondary"
    /\ hw = 6
    /\ \E w \in WindowIds, v \in WindowIds :
          /\ windows[w] # <<>> /\ windows[w][1].app_name = Slack
          /\ windows[v] # <<>> /\ windows[v][1].app_name = Code
          /\ ~result.raised
          /\ result.value.windows_moved = <<[window_id |-> w, app_name |-> Slack]>>
          /\ C10_Replay(1, 0, {}) = {<<w, DellU2720Q>>}

\* ------------------------------------------------------------------------
\* The display category's claim, under SpecDisplay

\* the call has asked the window manager for its monitors
C8_ListsMonitors == \E j \in 1..Len(cmds) : cmds[j] = QueryMonitors

\* what a load of the stored preset name shows of the category it compared with the
\* stored one: the category in the message of DISPLAY_MISMATCH, adapted otherwise
C8_LoadUsesCurrent(name) ==
    LET saved_category == files[PresetFile(name)][1].display_category IN
    IF result.raised
    THEN /\ result.error.code = "DISPLAY_MISMATCH"
         /\ result.error.message[2] = saved_category
         /\ result.error.message[4] = CurrentCategory
         /\ saved_category # CurrentCategory
    ELSE result.value.adapted = (saved_category # CurrentCategory)

\* what apply_focus_preset shows of the category it used: the preset chosen for "auto",
\* and the category reported when the built-in layout is applied
C8_ApplyUsesCurrent ==
    LET resolved == ResolvePreset(op.preset, CurrentCategory) IN
    IF Exists(resolved)
    THEN /\ C8_LoadUsesCurrent(resolved)
         /\ ~result.raised => result.value.preset_loaded = resolved
    ELSE ~result.raised => /\ result.value.preset_applied = resolved
                           /\ result.value.display_category = CurrentCategory

\* C8: however monitor changes are interleaved with get_display_info,
\* get_display_category, load_focus_preset and apply_focus_preset, each call lists the
\* monitors and the display category it uses is the classification of the monitors
\* connected during that call, never a category an earlier call computed.
C8_CategoryOfTheCall ==
    /\ op.name \in {"get_display_info", "get_display_category"} =>
           C8_ListsMonitors /\ result.value.category = CurrentCategory
    /\ (Loading /\ Exists(op.preset)) =>
           C8_ListsMonitors /\ C8_LoadUsesCurrent(op.preset)
    /\ op.name = "apply_focus_preset" => C8_ListsMonitors /\ C8_ApplyUsesCurrent

\* a preset saved on the laptop panel alone, two monitors plugged in since, and
\* apply_focus_preset("auto") then applies the preset of three monitors
C8_Witness ==
    /\ op.name = "apply_focus_preset"
    /\ op.preset = Auto
    /\ changes >= 1
    /\ Exists(Work)
    /\ files[PresetFile(Work)][1].display_category = "small_single"
    /\ CurrentCategory = "triple_plus"
    /\ ~result.raised
    /\ result.value.preset_applied = TripleMonitorFocus
    /\ result.value.display_category = "triple_plus"

\* a preset saved on the laptop panel alone is loaded with two monitors connected
C8_WitnessLoad ==
    /\ Loading
    /\ Exists(op.preset)
    /\ changes >= 1
    /\ Stored.display_category = "small_single"
    /\ CurrentCategory = "dual_display"
    /\ result.raised
    /\ result.error.code = "DISPLAY_MISMATCH"

\* ------------------------------------------------------------------------
\* tools/window.py, tools/layout.py, tools/capture.py, tools/focus.py: the tools that act
\* on one window or on the focused workspace

\* the call's view of the world before its first command
Begin == [cmds |-> <<>>, windows |-> windows, focused |-> focused, error |-> <<>>,
          window |-> <<>>]

\* a query, which never fails, and a raise, which ends the call
Query(st, q) == [st EXCEPT !.cmds = Append(@, q)]
Fail(st, err) == IF st.error # <<>> THEN st ELSE [st EXCEPT !.error = <<err>>]

NoWindowFocused ==
    Raise("NO_WINDOW_FOCUSED", "No window is currently focused",
          [suggestion |-> "Focus a window first"])

WindowNotFound(wins, window_id) ==
    Raise("WINDOW_NOT_FOUND", <<"Window with ID ", window_id, " not found">>,
          [requested_window_id |-> window_id, available_windows |-> AvailableIds(wins)])

\* a lookup that takes every id for the id of the focused window
FindWindowFocusedOnly(st, window_id) ==
    IF get_focused_window(st.windows, st.focused) = <<>>
    THEN Fail(Query(st, QueryFocused), NoWindowFocused)
    ELSE [Query(st, QueryFocused) EXCEPT
             !.window = get_focused_window(st.windows, st.focused)]

\* if window_id is not None: get_window_by_id(window_id), WINDOW_NOT_FOUND with the ids of
\* list_windows(all_windows=True) when there is none; else: get_focused_window(),
\* NO_WINDOW_FOCUSED when there is none
FindWindow(st, window_id) ==
    IF window_id # <<>>
    THEN IF get_window_by_id(st.windows, window_id[1]) = <<>>
         THEN Fail(Query(Query(st, QueryWindows), QueryWindows),
                   WindowNotFound(st.windows, window_id[1]))
         ELSE [Query(st, QueryWindows) EXCEPT
                  !.window = get_window_by_id(st.windows, window_id[1])]
    ELSE IF get_focused_window(st.windows, st.focused) = <<>>
         THEN Fail(Query(st, QueryFocused), NoWindowFocused)
         ELSE [Query(st, QueryFocused) EXCEPT
                  !.window = get_focused_window(st.windows, st.focused)]

\* run_aerospace_command("focus", "--window-id", str(window_id)) when window_id was given
FocusGiven(st, window_id, fails) ==
    IF window_id = <<>> THEN st
    ELSE Must(st, <<"focus", "--window-id", Digit(window_id[1])>>, fails)

\* one call of a tool: what it raised, or the dictionary it returns; the commands it
\* issued and the state the window manager is left in
Call(called, st, value) ==
    /\ op' = called
    /\ result' = IF st.error # <<>> THEN st.error[1] ELSE Return(value)
    /\ cmds' = st.cmds
    /\ windows' = st.windows
    /\ focused' = st.focused
    /\ UNCHANGED <<displays, hw, changes, preset_dir, files, clock>>

\* the window ids tried: none, and one that a window has or has not
ToolWindowIds == {<<>>, <<1>>}

\* window.py: move_window(target_type, target, window_id), for a move to a workspace, in
\* a direction, in none, and of a type there is not
move_window ==
    \E move \in {<<"workspace", "1">>, <<"direction", "left">>, <<"direction", "diagonal">>,
                 <<"sideways", "left">>},
       window_id \in ToolWindowIds, fails \in FailureSets(2) :
       LET target_type == move[1]
           target == move[2]
           found == FocusGiven(FindWindow(Begin, window_id), window_id, fails)
           st == IF found.error # <<>> THEN found
                 ELSE IF target_type = "workspace"
                 THEN Must(found, <<"move-node-to-workspace", target>>, fails)
                 ELSE IF target_type = "monitor"
                 THEN Must(found, <<"move-node-to-monitor", target>>, fails)
                 ELSE IF target_type = "direction"
                 THEN IF validate_direction(target) # <<>>
                      THEN Fail(found, validate_direction(target)[1])
                      ELSE Must(found, <<"move", target>>, fails)
                 ELSE Fail(found,
                           Raise("INVALID_PARAMETERS",
                                 <<"Invalid target_type '", target_type,
                                   "'. Must be: workspace, monitor, or direction">>,
                                 [provided |-> target_type,
                                  valid_options |-> {"workspace", "monitor", "direction"}]))
       IN  Call([name |-> "move_window", target_type |-> target_type, target |-> target,
                 window_id |-> window_id],
                st,
                [success |-> TRUE,
                 window_id |-> IF st.window = <<>> THEN 0 ELSE st.window[1].window_id,
                 moved_to |-> [type |-> target_type, name |-> target]])

VALID_DIMENSIONS == {"smart", "width", "height"}

\* window.py: resize_window(dimension, amount); the amount is passed on as it is
resize_window ==
    \E dimension \in {"width", "depth"}, fails \in FailureSets(1) :
       LET amount == "+50"
           st == IF dimension \notin VALID_DIMENSIONS
                 THEN Fail(Begin, Raise("INVALID_PARAMETERS",
                                        <<"Invalid dimension '", dimension,
                                          "'. Must be: smart, width, or height">>,
                                        [provided |-> dimension,
                                         valid_options |-> VALID_DIMENSIONS]))
                 ELSE Must(FindWindow(Begin, <<>>), <<"resize", dimension, amount>>, fails)
       IN  Call([name |-> "resize_window", dimension |-> dimension, amount |-> amount],
                st,
                [success |-> TRUE,
                 window_id |-> IF st.window = <<>> THEN 0 ELSE st.window[1].window_id,
                 resize |-> [dimension |-> dimension, amount |-> amount]])

\* window.py: close_window(window_id)
close_window ==
    \E window_id \in ToolWindowIds, fails \in FailureSets(1) :
       LET st == Must(FindWindow(Begin, window_id),
                      IF window_id # <<>> THEN <<"close", "--window-id", Digit(window_id[1])>>
                      ELSE <<"close">>,
                      fails)
       IN  Call([name |-> "close_window", window_id |-> window_id],
                st,
                [success |-> TRUE,
                 closed_window |-> IF st.window = <<>> THEN <<>>
                                   ELSE <<[window_id |-> st.window[1].window_id,
                                           app_name |-> st.window[1].app_name]>>])

\* a fullscreen_toggle that reports the state the window manager keeps
FullscreenToggleReadsState ==
    \E window_id \in ToolWindowIds, fails \in FailureSets(2) :
       LET toggled == Must(FocusGiven(FindWindow(Begin, window_id), window_id, fails),
                           <<"fullscreen">>, fails)
           st == IF toggled.error # <<>> THEN toggled ELSE Query(toggled, QueryWindows)
       IN  Call([name |-> "fullscreen_toggle", window_id |-> window_id],
                st,
                [success |-> TRUE,
                 window_id |-> IF st.window = <<>> THEN 0 ELSE st.window[1].window_id,
                 fullscreen |->
                     /\ st.window # <<>>
                     /\ st.windows[st.window[1].window_id] # <<>>
                     /\ "is_fullscreen" \in DOMAIN st.windows[st.window[1].window_id][1]
                     /\ st.windows[st.window[1].window_id][1].is_fullscreen])

\* window.py: fullscreen_toggle(window_id): is_fullscreen is True when the window is
\* still listed after the command
fullscreen_toggle ==
    \E window_id \in ToolWindowIds, fails \in FailureSets(2) :
       LET toggled == Must(FocusGiven(FindWindow(Begin, window_id), window_id, fails),
                           <<"fullscreen">>, fails)
           st == IF toggled.error # <<>> THEN toggled ELSE Query(toggled, QueryWindows)
       IN  Call([name |-> "fullscreen_toggle", window_id |-> window_id],
                st,
                [success |-> TRUE,
                 window_id |-> IF st.window = <<>> THEN 0 ELSE st.window[1].window_id,
                 fullscreen |->
                     /\ st.window # <<>>
                     /\ get_window_by_id(st.windows, st.window[1].window_id) # <<>>])

\* window.py: minimize_window(window_id)
minimize_window ==
    \E window_id \in ToolWindowIds, fails \in FailureSets(2) :
       LET st == Must(FocusGiven(FindWindow(Begin, window_id), window_id, fails),
                      <<"macos-native-minimize">>, fails)
       IN  Call([name |-> "minimize_window", window_id |-> window_id],
                st,
                [success |-> TRUE,
                 window_id |-> IF st.window = <<>> THEN 0 ELSE st.window[1].window_id,
                 minimized |-> TRUE])

\* aerospace.py: VALID_LAYOUTS and validate_layout(layout)
VALID_LAYOUTS == {"tiles", "accordion", "h_tiles", "v_tiles", "h_accordion", "v_accordion",
                  "floating", "tiling"}

\* a check that knows seven layouts, "tiling" not among them
ValidateLayoutNoTiling(layout) ==
    IF layout \notin VALID_LAYOUTS \ {"tiling"}
    THEN <<Raise("INVALID_LAYOUT", <<"Invalid layout '", layout, "'">>,
                 [provided |-> layout, valid_options |-> VALID_LAYOUTS])>>
    ELSE <<>>

\* validate_layout(layout): <<>> when it passes, the error when it raises
validate_layout(layout) ==
    IF layout \notin VALID_LAYOUTS
    THEN <<Raise("INVALID_LAYOUT", <<"Invalid layout '", layout, "'">>,
                 [provided |-> layout, valid_options |-> VALID_LAYOUTS])>>
    ELSE <<>>

QueryWorkspace == Command(<<"list-workspaces", "--focused", "--json">>, TRUE)

\* layout.py: set_layout(layout) for a layout of layouts; workspace is what get_focused_workspace() answers,
\* None or the workspace shown
SetLayout(layouts) ==
    \E layout \in layouts, workspace \in {<<>>, <<"1">>},
       fails \in FailureSets(1) :
       LET shown == SelectSeq(list_windows(windows), LAMBDA w : w.workspace = workspace)
           laid == Must(Begin, <<"layout", layout>>, fails)
           st == IF validate_layout(layout) # <<>>
                 THEN Fail(Begin, validate_layout(layout)[1])
                 ELSE IF laid.error # <<>> THEN laid
                 ELSE IF workspace = <<>> THEN Query(laid, QueryWorkspace)
                 ELSE Query(Query(laid, QueryWorkspace),
                            Command(<<"list-windows", "--all", "--workspace", workspace[1],
                                      "--json">>, TRUE))
       IN  Call([name |-> "set_layout", layout |-> layout],
                st,
                [success |-> TRUE, layout |-> layout,
                 affected_windows |-> IF workspace = <<>> THEN <<>>
                                      ELSE [j \in 1..Len(shown) |-> shown[j].window_id]])

set_layout == SetLayout({"tiles", "stacked"})

VALID_ORIENTATIONS == {"horizontal", "vertical"}

\* layout.py: split_window(orientation)
split_window ==
    \E orientation \in {"vertical", "diagonal"}, fails \in FailureSets(1) :
       Call([name |-> "split_window", orientation |-> orientation],
            IF orientation \notin VALID_ORIENTATIONS
            THEN Fail(Begin, Raise("INVALID_PARAMETERS",
                                   <<"Invalid orientation '", orientation,
                                     "'. Must be: horizontal or vertical">>,
                                   [provided |-> orientation,
                                    valid_options |-> VALID_ORIENTATIONS]))
            ELSE Must(Begin, <<"split", orientation>>, fails),
            [success |-> TRUE, split_orientation |-> orientation])

PNG == <<"p", "n", "g">>
JPG == <<"j", "p", "g">>
JPEG == <<"j", "p", "e", "g">>
PDF == <<"p", "d", "f">>

\* capture.py: valid_formats, and _get_format_flag(format_type)
VALID_FORMATS == {PNG, JPG, JPEG, PDF}

FormatFlag(format_type) ==
    CASE lower(format_type) = PNG -> PNG
      [] lower(format_type) = JPG -> JPG
      [] lower(format_type) = JPEG -> JPG
      [] lower(format_type) = PDF -> PDF
      [] OTHER -> PNG

\* capture.py: _run_screencapture(*args): CAPTURE_FAILED when the utility exits with
\* another status than 0; what it wrote to stderr is left out
RunScreencapture(st, argv, fails) ==
    IF st.error # <<>> THEN st
    ELSE LET ok == (Mutations(st.cmds) + 1) \notin fails IN
         IF ok THEN Query(st, Command(<<"screencapture">> \o argv, TRUE))
         ELSE Fail(Query(st, Command(<<"screencapture">> \o argv, FALSE)),
                   Raise("CAPTURE_FAILED", "Failed to capture screenshot",
                         [suggestion |-> "Grant screen recording permission"]))

\* capture.py: capture_window(window_id, output_path, format) with the default output
\* path, for a format as the set has it, one in capitals and one outside the set; the
\* file the utility writes is left out
capture_window ==
    \E window_id \in ToolWindowIds, format \in {PNG, <<"P", "D", "F">>, <<"g", "i", "f">>},
       fails \in FailureSets(1) :
       LET found == FindWindow(Begin, window_id)
           st == IF lower(format) \notin VALID_FORMATS
                 THEN Fail(Begin, Raise("INVALID_PARAMETERS",
                                        <<"Invalid format '", format,
                                          "'. Must be: png, jpg, or pdf">>,
                                        [provided |-> format,
                                         valid_options |-> VALID_FORMATS]))
                 ELSE IF found.error # <<>> THEN found
                 ELSE RunScreencapture(found, <<"-l", Digit(found.window[1].window_id), "-t",
                                                FormatFlag(format), "-o">>, fails)
       IN  Call([name |-> "capture_window", window_id |-> window_id, format |-> format],
                st,
                [success |-> TRUE,
                 capture |-> IF st.window = <<>> THEN <<>>
                             ELSE <<[window_id |-> st.window[1].window_id,
                                     app_name |-> st.window[1].app_name,
                                     format |-> lower(format)]>>])

\* an exception that is no AeroSpaceError
Exception(type, text) == [raised |-> TRUE, exception |-> [type |-> type, text |-> text]]

\* int(a / b) for b > 0
Trunc(a, b) == IF a >= 0 THEN a \div b ELSE -((-a) \div b)

\* focus.py: valid_types of resize_window_optimal, and the optimal width of
\* OPTIMAL_DIMENSIONS: optimal_chars * char_width_px + 50, or optimal_width_px
VALID_TYPES == {"code_editor", "browser", "terminal", "document", "communication"}

OptimalPx(content_type) ==
    CASE content_type = "code_editor" -> 120 * 10 + 50
      [] content_type = "browser" -> 1280
      [] content_type = "terminal" -> 100 * 9 + 50
      [] content_type = "document" -> 70 * 10 + 50
      [] content_type = "communication" -> 450

\* the resolution of the first display of get_display_info(), 1920 x 1080 when there is
\* no display
ScreenResolution(info) ==
    IF info.displays = <<>> THEN Res(1920, 1080)
    ELSE EffectiveOrResolution(info.displays[1])

\* max(min_px, min(optimal_px, max_px))
FinalWidth(optimal_px, max_px, min_px) ==
    IF optimal_px <= max_px
    THEN (IF min_px >= optimal_px THEN min_px ELSE optimal_px)
    ELSE (IF min_px >= max_px THEN min_px ELSE max_px)

\* focus.py: resize_window_optimal(window_id, content_type, max_width_percent,
\* min_width_percent), the percentages being the defaults or 30 and 60: the focus, then
\* int(final_width / screen_width * 100), then the layout and the resize
resize_window_optimal ==
    \E window_id \in ToolWindowIds,
       content_type \in {"code_editor", "communication", "spreadsheet"},
       percents \in {<<80, 40>>, <<30, 60>>},
       fails \in FailureSets(3) :
       LET max_width_percent == percents[1]
           min_width_percent == percents[2]
           screen_width == Get(ScreenResolution(get_display_info(hw)).width, 1920)
           final_width ==
               IF content_type \notin VALID_TYPES THEN 0
               ELSE FinalWidth(OptimalPx(content_type),
                               Trunc(screen_width * max_width_percent, 100),
                               Trunc(screen_width * min_width_percent, 100))
           found == FindWindow(Begin, window_id)
           focus == Must(Query(found, QueryMonitors),
                         <<"focus", "--window-id", Digit(found.window[1].window_id)>>, fails)
           st == IF content_type \notin VALID_TYPES
                 THEN Fail(Begin, Raise("INVALID_PARAMETERS",
                                        <<"Invalid content_type '", content_type, "'">>,
                                        [valid_options |-> VALID_TYPES]))
                 ELSE IF found.error # <<>> THEN found
                 ELSE IF focus.error # <<>> THEN focus
                 ELSE IF screen_width = 0
                 THEN Fail(focus, Exception("ZeroDivisionError", "division by zero"))
                 ELSE Must(Must(focus, <<"layout", "h_tiles">>, fails),
                           <<"resize", "width",
                             <<Trunc(final_width * 100, screen_width), "%">>>>, fails)
       IN  Call([name |-> "resize_window_optimal", window_id |-> window_id,
                 content_type |-> content_type, max_width_percent |-> max_width_percent,
                 min_width_percent |-> min_width_percent],
                st,
                [success |-> TRUE,
                 window_id |-> IF st.window = <<>> THEN 0 ELSE st.window[1].window_id,
                 content_type |-> content_type,
                 new_dimensions |-> [width |-> final_width]])

\* focus.py: valid_zones of set_window_zone, and the commands of each zone
VALID_ZONES == {"center_focus", "left_reference", "right_reference", "top_reference",
                "bottom_reference", "floating_pip"}

ZoneCommands(zone) ==
    CASE zone = "center_focus" -> << <<"layout", "tiling">>, <<"resize", "width", "65%">> >>
      [] zone = "left_reference" ->
             << <<"layout", "h_tiles">>, <<"move", "left">>, <<"resize", "width", "-40%">> >>
      [] zone = "right_reference" ->
             << <<"layout", "h_tiles">>, <<"move", "right">>, <<"resize", "width", "-40%">> >>
      [] zone = "top_reference" -> << <<"layout", "v_tiles">>, <<"move", "up">> >>
      [] zone = "bottom_reference" -> << <<"layout", "v_tiles">>, <<"move", "down">> >>
      [] zone = "floating_pip" -> << <<"layout", "floating">> >>

\* the bounds reported for a zone on a screen of w x h
ZoneBounds(zone, w, h) ==
    CASE zone = "center_focus" ->
             [x |-> Trunc(w - Trunc(w * 65, 100), 2), y |-> 0,
              width |-> Trunc(w * 65, 100), height |-> h]
      [] zone = "left_reference" ->
             [x |-> 0, y |-> 0, width |-> Trunc(w * 28, 100), height |-> h]
      [] zone = "right_reference" ->
             [x |-> w - Trunc(w * 28, 100), y |-> 0, width |-> Trunc(w * 28, 100),
              height |-> h]
      [] zone = "top_reference" -> [x |-> 0, y |-> 0, width |-> w, height |-> Trunc(h, 2)]
      [] zone = "bottom_reference" ->
             [x |-> 0, y |-> Trunc(h, 2), width |-> w, height |-> Trunc(h, 2)]
      [] zone = "floating_pip" ->
             [x |-> w - Trunc(w * 25, 100) - 20, y |-> h - Trunc(h * 25, 100) - 20,
              width |-> Trunc(w * 25, 100), height |-> Trunc(h * 25, 100)]
      [] OTHER -> [x |-> 0, y |-> 0, width |-> w, height |-> h]

\* run_aerospace_command for each of a list of commands, up to the first that fails
RECURSIVE MustAll(_, _, _, _)
MustAll(st, argvs, k, fails) ==
    IF k > Len(argvs) THEN st
    ELSE MustAll(Must(st, argvs[k], fails), argvs, k + 1, fails)

\* the move of set_window_zone to the monitor asked for: the next one for "secondary",
\* the one with the index for a number, none for "primary" and for any other text
ZoneMonitor(st, monitor, monitors, fails) ==
    IF st.error # <<>> THEN st
    ELSE IF monitor = "secondary" THEN Must(st, <<"move-node-to-monitor", "next">>, fails)
    ELSE IF monitor # "primary" /\ IsDigit(monitor)
    THEN IF ParseInt(monitor) > Len(monitors) THEN Query(st, QueryMonitors)
         ELSE IF monitors = <<>>
         THEN Fail(Query(st, QueryMonitors),
                   Exception("IndexError", "list index out of range"))
         ELSE LET at == IF ParseInt(monitor) = 0 THEN Len(monitors) ELSE ParseInt(monitor)
              IN  IF monitors[at].name = <<>> THEN Query(st, QueryMonitors)
                  ELSE Must(Query(st, QueryMonitors),
                            <<"move-node-to-monitor", monitors[at].name[1]>>, fails)
    ELSE st

\* focus.py: set_window_zone(window_id, zone, monitor)
set_window_zone ==
    \E window_id \in ToolWindowIds, zone \in {"center_focus", "corner"},
       monitor \in {"primary", "secondary", "2"}, fails \in FailureSets(4) :
       LET found == FindWindow(Begin, window_id)
           moved == ZoneMonitor(Must(found, <<"focus", "--window-id",
                                              Digit(found.window[1].window_id)>>, fails),
                                monitor, list_monitors(hw), fails)
           st == IF zone \notin VALID_ZONES
                 THEN Fail(Begin, Raise("INVALID_PARAMETERS", <<"Invalid zone '", zone, "'">>,
                                        [valid_options |-> VALID_ZONES]))
                 ELSE IF found.error # <<>> THEN found
                 ELSE IF moved.error # <<>> THEN moved
                 ELSE MustAll(Query(moved, QueryMonitors), ZoneCommands(zone), 1, fails)
       IN  Call([name |-> "set_window_zone", window_id |-> window_id, zone |-> zone,
                 monitor |-> monitor],
                st,
                [success |-> TRUE,
                 window_id |-> IF st.window = <<>> THEN 0 ELSE st.window[1].window_id,
                 zone |-> zone, monitor |-> monitor,
                 bounds |-> ZoneBounds(zone,
                                Get(ScreenResolution(get_display_info(hw)).width, 1920),
                                Get(ScreenResolution(get_display_info(hw)).height, 1080))])

\* ------------------------------------------------------------------------
\* The tools that take an enumerated parameter or a window id, called while windows
\* open and close

\* a window opens: one to talk in or one to write code in
OpenToolWindow == Open({[app_name |-> a, workspace |-> <<"1">>] : a \in {Slack, Code}})

\* focus_window in a direction, in none, or on the window with the id
focus_either == Focus({<<>>, <<"left">>, <<"sideways">>}, ToolWindowIds)

\* apply_focus_preset with no preset stored: the built-in layout, for the focused window
\* or the one with the id
apply_built_in == Apply({Auto}, ToolWindowIds, {<<>>}, {FALSE})

\* the hardware: one monitor system_profiler does not know, or the laptop with an
\* external monitor
InitTools ==
    /\ displays = <<>>
    /\ InitWorld({5, 6})

NextTools ==
    \/ OpenToolWindow
    \/ CloseWindow
    \/ focus_either
    \/ move_window
    \/ resize_window
    \/ close_window
    \/ fullscreen_toggle
    \/ minimize_window
    \/ set_layout
    \/ split_window
    \/ capture_window
    \/ resize_window_optimal
    \/ set_window_zone
    \/ move_app_category_to_monitor
    \/ apply_built_in

SpecTools == InitTools /\ [][NextTools]_vars

\* ------------------------------------------------------------------------
\* C11: a value outside the allowed set of an enumerated parameter

\* the last call raised an AeroSpaceError
Failed == result.raised /\ "error" \in DOMAIN result

\* the value outside its set that the last call carried, <<>> when it carried none; of
\* two such values the one the tool checks first
C11_Offending ==
    CASE op.name = "focus_window" ->
             IF op.direction # <<>> /\ op.direction[1] \notin VALID_DIRECTIONS
             THEN <<op.direction[1]>> ELSE <<>>
      [] op.name = "move_window" ->
             IF op.target_type \notin {"workspace", "monitor", "direction"}
             THEN <<op.target_type>>
             ELSE IF op.target_type = "direction" /\ op.target \notin VALID_DIRECTIONS
             THEN <<op.target>> ELSE <<>>
      [] op.name = "resize_window" ->
             IF op.dimension \notin VALID_DIMENSIONS THEN <<op.dimension>> ELSE <<>>
      [] op.name = "set_layout" ->
             IF op.layout \notin VALID_LAYOUTS THEN <<op.layout>> ELSE <<>>
      [] op.name = "split_window" ->
             IF op.orientation \notin VALID_ORIENTATIONS THEN <<op.orientation>> ELSE <<>>
      [] op.name = "capture_window" ->
             IF lower(op.format) \notin VALID_FORMATS THEN <<op.format>> ELSE <<>>
      [] op.name = "resize_window_optimal" ->
             IF op.content_type \notin VALID_TYPES THEN <<op.content_type>> ELSE <<>>
      [] op.name = "set_window_zone" ->
             IF op.zone \notin VALID_ZONES THEN <<op.zone>> ELSE <<>>
      [] op.name = "move_app_category_to_monitor" ->
             IF op.category \notin DOMAIN APP_CATEGORIES THEN <<op.category>>
             ELSE IF op.layout \notin MoveLayouts THEN <<op.layout>> ELSE <<>>
      [] OTHER -> <<>>

\* the allowed set is named: the details of the error carry it
C11_NamesBoth ==
    /\ "valid_options" \in DOMAIN result.error.details
    /\ result.error.message[2] = C11_Offending[1]

C11_Code ==
    IF op.name = "set_layout" THEN "INVALID_LAYOUT"
    ELSE IF op.name = "focus_window" THEN "INVALID_DIRECTION"
    ELSE IF op.name = "move_window" /\ op.target_type = "direction" THEN "INVALID_DIRECTION"
    ELSE "INVALID_PARAMETERS"

\* the errors that end a call before the offending value is checked: focus_window given
\* both a direction and a window id, move_window before its window is found and focused
C11_Earlier ==
    IF op.name = "focus_window" /\ BothGiven(op.direction, op.window_id)
    THEN {"INVALID_PARAMETERS"}
    ELSE IF op.name = "move_window"
    THEN {"WINDOW_NOT_FOUND", "NO_WINDOW_FOCUSED", "COMMAND_FAILED"}
    ELSE {}

C11_WitnessFormat ==
    /\ op.name = "capture_window"
    /\ C11_Offending = <<<<"g", "i", "f">>>>
    /\ Failed
    /\ result.error.code = "INVALID_PARAMETERS"
    /\ C11_NamesBoth

\* ------------------------------------------------------------------------
\* C12: validation before the first command

\* C12: a call that carries a value outside the allowed set of an enumerated parameter
\* has issued no command, to the window manager or to the screenshot utility, when it
\* fails
C12_NoCommandBeforeRejection ==
    C11_Offending # <<>> => (result.raised /\ cmds = <<>>)

\* ------------------------------------------------------------------------
\* C13: the window a tool acts on

\* the tools with an optional window id, and the id a call of one of them was given
C13_Tools == {"move_window", "close_window", "fullscreen_toggle", "minimize_window",
              "capture_window", "resize_window_optimal", "set_window_zone",
              "apply_focus_preset"}

C13_Given(called) ==
    IF called.name = "apply_focus_preset" THEN called.focus_window_id ELSE called.window_id

\* the id of the window a successful call reports to have acted on
C13_Target(called, returned) ==
    CASE called.name = "close_window" -> returned.value.closed_window[1].window_id
      [] called.name = "capture_window" -> returned.value.capture[1].window_id
      [] called.name = "apply_focus_preset" -> returned.value.layout.focus_window.window_id
      [] OTHER -> returned.value.window_id

\* the call fails with code and has changed nothing
C13_FailsUnchanged(code) ==
    /\ result'.raised
    /\ "error" \in DOMAIN result'
    /\ result'.error.code = code
    /\ Mutations(cmds') = 0
    /\ windows' = windows
    /\ focused' = focused

C13_WitnessFocused ==
    /\ op.name = "set_window_zone"
    /\ op.window_id = <<>>
    /\ ~result.raised
    /\ result.value.window_id = focused
    /\ focused = 2

\* minimize_window without an id when no window is focused
C13_WitnessNoFocus ==
    /\ op.name = "minimize_window"
    /\ op.window_id = <<>>
    /\ Failed
    /\ result.error.code = "NO_WINDOW_FOCUSED"
    /\ cmds = <<QueryFocused>>

\* ------------------------------------------------------------------------
\* server.py and resources.py: the handlers registered on the server

\* aerospace.py: AeroSpaceError.to_dict()
to_dict(error) == [success |-> FALSE, error |-> error]

\* server.py: handle_error(e); {} is written <<>>
handle_error(raised) ==
    IF "error" \in DOMAIN raised THEN to_dict(raised.error)
    ELSE [success |-> FALSE,
          error |-> [code |-> "UNKNOWN_ERROR", message |-> raised.exception.text,
                     details |-> <<>>]]

\* the tools of the model, by the name of the function the handler tool_<name> calls
ToolNames ==
    {"focus_window", "move_window", "resize_window", "close_window", "fullscreen_toggle",
     "minimize_window", "set_layout", "split_window", "capture_window", "get_display_info",
     "get_display_category", "apply_focus_preset", "save_focus_preset", "load_focus_preset",
     "resize_window_optimal", "set_window_zone", "move_app_category_to_monitor"}

\* what the handler of the last call gives the client.  A tool's handler is
\* try: return await <tool>(...) except Exception as e: return handle_error(e);
\* a resource's handler is modelled whole by its action
Response ==
    IF op.name \in ToolNames /\ result.raised THEN Return(handle_error(result)) ELSE result

\* json.dumps(value, indent=2): a text, which is no dictionary
Json(value) == [json |-> value]

\* resources.py: the entry of a window; is_focused is None when no window is focused
WindowEntry(w, wins, foc) ==
    [window_id |-> w.window_id, app_name |-> w.app_name, workspace |-> w.workspace,
     is_focused |-> IF get_focused_window(wins, foc) = <<>> THEN <<>>
                    ELSE <<foc = w.window_id>>]

\* server.py: resource_windows(), with no try around get_windows_resource(); ok is the
\* exit status of the listing
resource_windows ==
    /\ \E ok \in BOOLEAN :
          LET listed == list_windows(windows) IN
          /\ op' = [name |-> "resource_windows"]
          /\ result' = IF ~ok THEN CommandFailed(QueryWindows.argv)
                       ELSE Return(Json([windows |->
                                            [j \in 1..Len(listed) |->
                                                WindowEntry(listed[j], windows, focused)],
                                         total_count |-> Len(listed)]))
          /\ cmds' = IF ~ok THEN <<Command(QueryWindows.argv, FALSE)>>
                     ELSE <<QueryWindows>> \o [j \in 1..Len(listed) |-> QueryFocused]
    /\ UNCHANGED <<displays, windows, focused, hw, changes, preset_dir, files, clock>>

\* server.py: resource_window(window_id), which catches AeroSpaceError
resource_window ==
    /\ \E window_id \in ToolWindowIds \ {<<>>}, ok \in BOOLEAN :
          LET found == get_window_by_id(windows, window_id[1]) IN
          /\ op' = [name |-> "resource_window", window_id |-> window_id[1]]
          /\ result' = IF ~ok THEN Return(Json(to_dict(CommandFailed(QueryWindows.argv).error)))
                       ELSE IF found = <<>>
                       THEN Return(Json(to_dict(WindowNotFound(windows, window_id[1]).error)))
                       ELSE Return(Json(WindowEntry(found[1], windows, focused)))
          /\ cmds' = IF ~ok THEN <<Command(QueryWindows.argv, FALSE)>>
                     ELSE IF found = <<>> THEN <<QueryWindows>>
                     ELSE <<QueryWindows, QueryFocused>>
    /\ UNCHANGED <<displays, windows, focused, hw, changes, preset_dir, files, clock>>

\* the tools and resources of the server, called while windows open and close, with one
\* monitor system_profiler does not know or the laptop with an external monitor
NextServer ==
    \/ OpenToolWindow
    \/ CloseWindow
    \/ CallGetDisplayInfo
    \/ CallGetDisplayCategory
    \/ focus_either
    \/ close_window
    \/ resize_window_optimal
    \/ resource_windows
    \/ resource_window

SpecServer == InitTools /\ [][NextServer]_vars

\* ------------------------------------------------------------------------
\* C14: the envelope of a tool's result

\* {"success": true, ...} or {"success": false, "error": {code, message, details}}
C14_Envelope(value) ==
    /\ "success" \in DOMAIN value
    /\ \/ value.success = TRUE
       \/ /\ value.success = FALSE
          /\ DOMAIN value = {"success", "error"}
          /\ DOMAIN value.error = {"code", "message", "details"}

\* C14: every tool gives the client the uniform envelope, get_display_info and
\* get_display_category included
C14_UniformEnvelope ==
    op.name \in ToolNames => (~Response.raised /\ C14_Envelope(Response.value))

\* ------------------------------------------------------------------------
\* C15: no failure escapes a handler

\* C15: no handler of the server, of a tool or of a resource, raises: it returns
C15_NothingEscapes == op.name \notin {"init", "environment"} => ~Response.raised

\* ------------------------------------------------------------------------
\* aerospace.py: run_aerospace_command and run_aerospace_command_sync

\* str.strip(), of a text with blanks
RECURSIVE Strip(_)
Strip(text) ==
    IF text = <<>> THEN text
    ELSE IF Head(text) = " " THEN Strip(Tail(text))
    ELSE IF text[Len(text)] = " " THEN Strip(SubSeq(text, 1, Len(text) - 1))
    ELSE text

\* how the child process ends: it cannot be started (FileNotFoundError), or it exits
\* with a status after writing to its two streams
Streams == {<<>>, <<" ", "e", "r", "r", " ">>}
ProcessOutcomes ==
    {[started |-> FALSE]}
    \cup [started : {TRUE}, returncode : {0, 1, 127}, stdout : Streams, stderr : Streams]

\* os.environ.get("PATH", ""): unset, without and with a directory of the name
PathInputs == {<<>>, <<"/", "b", "i", "n">>, <<"/", "o", "p", "t", "/", "a", "e", "r", "o", "s", "p", "a", "c", "e">>}

NotRunning ==
    Raise("AEROSPACE_NOT_RUNNING", "AeroSpace daemon is not running. Please start it first.",
          [suggestion |-> "Run 'aerospace start' or launch AeroSpace from Applications"])

CliNotFound ==
    Raise("AEROSPACE_NOT_RUNNING",
          "AeroSpace CLI not found. Please ensure AeroSpace is installed and in PATH.",
          [suggestion |-> "Install AeroSpace"])

\* the end of both runners once the exit status is classified; not_found is the test for
\* the missing executable
Classify(cmd, check, outcome, not_found) ==
    IF ~outcome.started THEN NotRunning
    ELSE IF check /\ outcome.returncode # 0
    THEN IF not_found THEN CliNotFound
         ELSE Raise("COMMAND_FAILED",
                    <<"AeroSpace command failed: ",
                      IF Strip(outcome.stderr) # <<>> THEN Strip(outcome.stderr)
                      ELSE Strip(outcome.stdout)>>,
                    [command |-> cmd, return_code |-> outcome.returncode,
                     stderr |-> Strip(outcome.stderr)])
    ELSE Return(<<Strip(outcome.stdout), Strip(outcome.stderr), outcome.returncode>>)

\* cmd = ["aerospace", *args], with "--json" appended for json_output
CommandLine(args, json_output) ==
    <<"aerospace">> \o args \o (IF json_output THEN <<"--json">> ELSE <<>>)

\* run_aerospace_command(*args, json_output, check) with the PATH of the environment
run_aerospace_command(args, json_output, check, outcome, path) ==
    Classify(CommandLine(args, json_output), check, outcome,
             outcome.started /\ ~In(<<"a", "e", "r", "o", "s", "p", "a", "c", "e">>, path) /\ outcome.returncode = 127)

\* run_aerospace_command_sync(*args, json_output, check)
run_aerospace_command_sync(args, json_output, check, outcome, path) ==
    Classify(CommandLine(args, json_output), check, outcome,
             outcome.started /\ outcome.returncode = 127)

\* one run of a command by one of the two runners
RunAsync ==
    /\ \E args \in {<<"list-windows", "--all">>, <<"close">>}, json_output \in BOOLEAN,
          check \in BOOLEAN, outcome \in ProcessOutcomes, path \in PathInputs :
          /\ op' = [name |-> "run_aerospace_command", args |-> args,
                    json_output |-> json_output, check |-> check, outcome |-> outcome,
                    path |-> path]
          /\ result' = run_aerospace_command(args, json_output, check, outcome, path)
          /\ cmds' = IF outcome.started
                     THEN <<Command(args \o (IF json_output THEN <<"--json">> ELSE <<>>),
                                    outcome.returncode = 0)>>
                     ELSE <<>>
    /\ UNCHANGED <<displays, windows, focused, hw, changes, preset_dir, files, clock>>

RunSync ==
    /\ \E args \in {<<"list-windows", "--all">>, <<"close">>}, json_output \in BOOLEAN,
          check \in BOOLEAN, outcome \in ProcessOutcomes, path \in PathInputs :
          /\ op' = [name |-> "run_aerospace_command_sync", args |-> args,
                    json_output |-> json_output, check |-> check, outcome |-> outcome,
                    path |-> path]
          /\ result' = run_aerospace_command_sync(args, json_output, check, outcome, path)
          /\ cmds' = IF outcome.started
                     THEN <<Command(args \o (IF json_output THEN <<"--json">> ELSE <<>>),
                                    outcome.returncode = 0)>>
                     ELSE <<>>
    /\ UNCHANGED <<displays, windows, focused, hw, changes, preset_dir, files, clock>>

NextCommand == RunAsync \/ RunSync

SpecCommand == InitTools /\ [][NextCommand]_vars

\* ------------------------------------------------------------------------
\* C16: the exit status of the child process

\* C16: with check=True every exit status other than 0 raises COMMAND_FAILED with the
\* argument list, the exit status and stderr, the message showing stderr or, when that is
\* empty, stdout; with check=False no exit status raises and the runner returns
\* (stdout, stderr, exit status); the synchronous runner gives for every outcome what the
\* asynchronous one gives
C16_ClassifiesExitStatus ==
    op.name \in {"run_aerospace_command", "run_aerospace_command_sync"} =>
        /\ (op.outcome.started /\ op.check /\ op.outcome.returncode # 0) =>
              /\ Failed
              /\ result.error.code = "COMMAND_FAILED"
              /\ result.error.details.command = CommandLine(op.args, op.json_output)
              /\ result.error.details.return_code = op.outcome.returncode
              /\ result.error.details.stderr = Strip(op.outcome.stderr)
              /\ result.error.message[2] =
                    IF Strip(op.outcome.stderr) # <<>> THEN Strip(op.outcome.stderr)
                    ELSE Strip(op.outcome.stdout)
        /\ (op.outcome.started /\ ~op.check) =>
              result = Return(<<Strip(op.outcome.stdout), Strip(op.outcome.stderr),
                                op.outcome.returncode>>)
        /\ result = run_aerospace_command(op.args, op.json_output, op.check, op.outcome,
                                          op.path)
        /\ result = run_aerospace_command_sync(op.args, op.json_output, op.check,
                                               op.outcome, op.path)

\* ------------------------------------------------------------------------
\* The two batch operations, load_focus_preset and move_app_category_to_monitor, on the
\* laptop with an external monitor

InitBatch ==
    /\ displays = <<>>
    /\ InitWorld({6})

NextBatch ==
    \/ OpenToolWindow
    \/ CloseWindow
    \/ SaveWork
    \/ LoadWork
    \/ move_app_category_to_monitor

SpecBatch == InitBatch /\ [][NextBatch]_vars

\* ------------------------------------------------------------------------
\* C17: a failing command within a batch

\* the last call is a load that has come to its loop over the recorded windows, or a
\* move of a category that has come to its loop over the listed windows
C17_LoadLoops ==
    /\ Loading
    /\ Exists(op.preset)
    /\ (Stored.display_category = CurrentCategory \/ op.adapt_to_displays)
C17_MoveLoops ==
    /\ Moving
    /\ ~MoveChecks(op.category, op.monitor, op.layout).result.raised

\* C17: in load_focus_preset and in move_app_category_to_monitor a command that fails for
\* one window does not end the batch: every item is attempted, the call returns success,
\* and the result counts exactly the items all of whose commands succeeded
C17_FailureSkipsOneItem ==
    /\ C17_LoadLoops =>
          /\ ~result.raised
          /\ result.value.success
          /\ Len(C4_Focuses) = Len(C4_Matched)
          /\ \A i \in 1..Len(C4_Matched) : C4_Attempted(i)
          /\ result.value.windows_arranged =
                Cardinality({i \in 1..Len(C4_Matched) : C4_Reapplied(i)})
    /\ C17_MoveLoops =>
          /\ ~result.raised
          /\ result.value.success
          /\ \A w \in C10_Members : C10_FocusAt(w) > 0
          /\ Len(result.value.windows_moved) =
                Cardinality({w \in C10_Members : C10_Succeeded(w)})
          /\ \A i \in 1..Len(result.value.windows_moved) :
                C10_Succeeded(result.value.windows_moved[i].window_id)

\* two windows of the category: the focus of the first fails, the second is moved and is
\* the only one listed
C17_Witness ==
    /\ C17_MoveLoops
    /\ C10_Members = {1, 2}
    /\ ~cmds[C10_FocusAt(1)].ok
    /\ C10_Succeeded(2)
    /\ Len(result.value.windows_moved) = 1
    /\ result.value.windows_moved[1].window_id = 2

\* two recorded windows with a live window each: the move of the first fails, the second
\* is arranged and is the only one counted
C17_WitnessLoad ==
    /\ C17_LoadLoops
    /\ Len(C4_Matched) = 2
    /\ ~C4_Reapplied(1)
    /\ C4_Reapplied(2)
    /\ result.value.windows_arranged = 1

\* ------------------------------------------------------------------------
\* The preset and the strategy of every display category

\* apply_focus_preset for the preset of the category or a built-in one by name, for
\* the focused window or the first
apply_any == Apply({Auto, LargeCentered}, {<<>>, <<1>>}, {<<>>}, {FALSE})

\* the server starts with any of the hardware configurations connected
InitCategory == displays = <<>> /\ InitWorld(Hardware)

NextCategory ==
    \/ OpenToolWindow
    \/ CloseWindow
    \/ CallGetDisplayCategory
    \/ apply_any

SpecCategory == InitCategory /\ [][NextCategory]_vars

\* ------------------------------------------------------------------------
\* C18, under SpecCategory

C18_Table(category) ==
    CASE category = "small_single" -> SmallSingleFocus
      [] category = "medium_single" -> MediumSplit
      [] category = "large_single" -> LargeCentered
      [] category = "dual_display" -> DualMonitorFocus
      [] category = "triple_plus" -> TripleMonitorFocus
      [] category = "unknown" -> MediumSplit

\* the name the call has to go on with: the table's for 'auto', the argument otherwise
C18_Name == IF op.preset = Auto THEN C18_Table(CurrentCategory) ELSE op.preset

C18_BuiltIn == op.name = "apply_focus_preset" /\ ~result.raised /\ ~Exists(C18_Name)

\* C18: apply_focus_preset(preset='auto') goes on with the preset the table gives the
\* current display category (medium_split for unknown) and any other preset argument
\* is used as it is; a built-in result reports that name as preset_applied.
C18_AutoResolvesByTable ==
    op.name = "apply_focus_preset" =>
        /\ CurrentCategory \in {"small_single", "medium_single", "large_single",
                                "dual_display", "triple_plus", "unknown"}
        /\ (~result.raised /\ ~Exists(C18_Name)) =>
              /\ "preset_applied" \in DOMAIN result.value
              /\ result.value.preset_applied = C18_Name
              /\ result.value.display_category = CurrentCategory

\* 'auto' on a large single display applies large_centered
C18_Witness ==
    /\ C18_BuiltIn
    /\ op.preset = Auto
    /\ CurrentCategory = "large_single"
    /\ result.value.preset_applied = LargeCentered

\* 'auto' with no display known applies medium_split
C18_WitnessUnknown ==
    /\ C18_BuiltIn
    /\ op.preset = Auto
    /\ CurrentCategory = "unknown"
    /\ result.value.preset_applied = MediumSplit

\* a named preset is applied whatever the category
C18_WitnessNamed ==
    /\ C18_BuiltIn
    /\ op.preset = LargeCentered
    /\ CurrentCategory = "small_single"
    /\ result.value.preset_applied = LargeCentered

C18_WitnessCategories ==
    /\ C18_BuiltIn
    /\ op.preset = Auto
    /\ CurrentCategory = "triple_plus"
    /\ result.value.preset_applied = TripleMonitorFocus

\* ------------------------------------------------------------------------
\* C20, under SpecCategory

C20_Table(category) ==
    CASE category = "small_single" -> "fullscreen_focus"
      [] category = "medium_single" -> "split_sidebar"
      [] category = "large_single" -> "centered_focus"
      [] category = "dual_display" -> "primary_focus_secondary_reference"
      [] category = "triple_plus" -> "dedicated_monitors"
      [] category = "unknown" -> "fullscreen_focus"

C20_Called == op.name = "get_display_category" /\ ~result.raised

\* C20: get_display_category returns one of the six categories small_single,
\* medium_single, large_single, dual_display, triple_plus and unknown, the one the
\* connected displays classify as, and as recommended_strategy the tag the table gives
\* that category (fullscreen_focus for unknown).
C20_StrategyByTable ==
    op.name = "get_display_category" =>
        /\ ~result.raised
        /\ result.value.category \in {"small_single", "medium_single", "large_single",
                                      "dual_display", "triple_plus", "unknown"}
        /\ result.value.category = CurrentCategory
        /\ result.value.recommended_strategy = C20_Table(result.value.category)

\* two displays: the primary for the focus, the secondary for reference
C20_Witness ==
    /\ C20_Called
    /\ result.value.category = "dual_display"
    /\ result.value.recommended_strategy = "primary_focus_secondary_reference"

\* no display: unknown, with the strategy of the smallest
C20_WitnessUnknown ==
    /\ C20_Called
    /\ result.value.category = "unknown"
    /\ result.value.recommended_strategy = "fullscreen_focus"

C20_WitnessSingles ==
    /\ C20_Called
    /\ result.value.category = "medium_single"
    /\ result.value.recommended_strategy = "split_sidebar"

\* ------------------------------------------------------------------------
\* A stored preset applied by name while windows and monitors come and go

ChangeStoredDisplays == Replug({2, 6})

\* apply_focus_preset('work') with every combination of its other arguments
apply_stored == Apply({Work}, {<<>>, <<1>>}, {<<>>, <<Code>>}, BOOLEAN)

InitStored == displays = <<>> /\ InitWorld({2, 6})

NextStored ==
    \/ OpenToolWindow
    \/ CloseWindow
    \/ ChangeStoredDisplays
    \/ SaveWork
    \/ apply_stored

SpecStored == InitStored /\ [][NextStored]_vars

\* ------------------------------------------------------------------------
\* C19, under SpecStored

\* the step is a call of apply_focus_preset for a name a preset is stored under
C19_AppliesStored == op'.name = "apply_focus_preset" /\ Exists(op'.resolved)

\* the step ends as load_focus_preset(name, adapt_to_displays=True) called in the state
\* before it would, the commands in first issued ahead of load's
C19_AsLoad(first) ==
    \E outcomes \in [1..StoredEntries(op'.resolved) -> Outcomes] :
        LET loaded == LoadFocusPreset(op'.resolved, TRUE, outcomes, <<>>) IN
        /\ result' = loaded.result
        /\ cmds' = first \o loaded.cmds
        /\ windows' = loaded.windows
        /\ focused' = loaded.focused

C19_NotItsOwnFailure ==
    result'.raised => result'.error.code \notin {"DISPLAY_MISMATCH", "NO_WINDOW_FOCUSED",
                                                 "WINDOW_NOT_FOUND"}

\* C19 as stated: with a stored preset under the resolved name, apply_focus_preset issues
\* the commands of load_focus_preset(name) with adaptation and no other, returns its
\* result, and fails with none of DISPLAY_MISMATCH, NO_WINDOW_FOCUSED, WINDOW_NOT_FOUND.
C19_ExactlyAsLoad ==
    [][C19_AppliesStored => (C19_AsLoad(<<>>) /\ C19_NotItsOwnFailure)]_vars

\* C19: with a stored preset under the resolved name, apply_focus_preset asks for the
\* monitors once (its own display category) and then issues the commands of
\* load_focus_preset(name) with adaptation, returns its result and leaves the windows as
\* load does, whatever focus_window_id, reference_apps and hide_communication are; it
\* fails with none of DISPLAY_MISMATCH, NO_WINDOW_FOCUSED, WINDOW_NOT_FOUND.
C19_AsLoadAfterCategoryQuery ==
    [][C19_AppliesStored => (C19_AsLoad(<<QueryMonitors>>) /\ C19_NotItsOwnFailure)]_vars

C19_Stored == op.name = "apply_focus_preset" /\ Exists(op.resolved) /\ ~result.raised

\* the stored preset applied for a window that is not open, with nothing focused, on
\* other displays than it was saved on
C19_Witness ==
    /\ C19_Stored
    /\ op.focus_window_id = <<1>>
    /\ windows[1] = <<>>
    /\ focused = 0
    /\ op.hide_communication
    /\ result.value.adapted
    /\ "preset_loaded" \in DOMAIN result.value

\* the stored preset applied with a reference application named, a window moved
C19_WitnessArranged ==
    /\ C19_Stored
    /\ op.reference_apps = <<Code>>
    /\ result.value.windows_arranged >= 1
    /\ cmds[1] = QueryMonitors
    /\ cmds[2] = QueryMonitors

\* ------------------------------------------------------------------------
\* The preset store under saving, loading and applying by two names

save_named == Save(PresetNames, {<<>>})

\* apply_focus_preset for the preset of the category or one of the two names
apply_named == Apply({Auto, Empty, Work}, {<<1>>}, {<<>>}, {FALSE})

InitStore == displays = <<>> /\ InitWorld({2, 6})

NextStore ==
    \/ OpenToolWindow
    \/ ChangeStoredDisplays
    \/ save_named
    \/ load_focus_preset
    \/ apply_named

SpecStore == InitStore /\ [][NextStore]_vars

\* ------------------------------------------------------------------------
\* C21, under SpecStore

\* the record stored under name, <<>> when there is none
C21_Record(dir, fs, name) == IF dir THEN fs[PresetFile(name)] ELSE <<>>

C21_Names(dir, fs) == {name \in PresetNames : C21_Record(dir, fs, name) # <<>>}

\* C21: over any sequence of save_focus_preset, load_focus_preset and
\* apply_focus_preset calls, failing ones included, no stored preset name disappears,
\* the record under a name changes only in a save_focus_preset of that name, and a
\* load_focus_preset or apply_focus_preset leaves the whole store as it was.
C21_StoreOnlyGrows ==
    [][/\ C21_Names(preset_dir, files) \subseteq C21_Names(preset_dir', files')
       /\ \A name \in PresetNames :
             C21_Record(preset_dir', files', name) # C21_Record(preset_dir, files, name)
                => (op'.name = "save_focus_preset" /\ op'.preset = name)
       /\ op'.name \in {"load_focus_preset", "apply_focus_preset"}
             => (files' = files /\ preset_dir' = preset_dir)]_vars

\* both names stored, and a load of one of them has failed for the changed displays
C21_Witness ==
    /\ C21_Names(preset_dir, files) = PresetNames
    /\ op.name = "load_focus_preset"
    /\ result.raised
    /\ result.error.code = "DISPLAY_MISMATCH"

\* a stored preset applied with the other name stored as well
C21_WitnessApplied ==
    /\ C21_Names(preset_dir, files) = PresetNames
    /\ op.name = "apply_focus_preset"
    /\ op.preset = Work
    /\ ~result.raised
    /\ files[PresetFile(Work)] # files[PresetFile(Empty)]

\* a load of a name nothing is stored under, with the other one stored
C21_WitnessMissing ==
    /\ C21_Names(preset_dir, files) = {Work}
    /\ op.name = "load_focus_preset"
    /\ op.preset = Empty
    /\ result.raised
    /\ result.error.code = "PRESET_NOT_FOUND"

\* ------------------------------------------------------------------------
\* resources.py: the detail resources

\* aerospace.py: list_workspaces(all_workspaces=True) as the window manager answers it
\* here, one workspace for each monitor
list_workspaces(h) ==
    [i \in 1..Len(list_monitors(h)) |-> [workspace |-> Digit(i),
                                         monitor |-> list_monitors(h)[i].name]]

\* aerospace.py: get_focused_workspace(), the workspace of the focused window, <<>> for None
get_focused_workspace(wins, foc) ==
    IF get_focused_window(wins, foc) = <<>> THEN <<>>
    ELSE get_focused_window(wins, foc)[1].workspace

QueryWorkspaces == Command(<<"list-workspaces", "--all", "--json">>, TRUE)

\* resources.py: get_window_resource(window_id); title, bundle id and flags are left out
get_window_resource ==
    /\ \E window_id \in 1..(MaxWindows + 1) :
          LET found == get_window_by_id(windows, window_id) IN
          /\ op' = [name |-> "get_window_resource", window_id |-> window_id]
          /\ result' = IF found = <<>> THEN WindowNotFound(windows, window_id)
                       ELSE Return(WindowEntry(found[1], windows, focused))
          /\ cmds' = IF found = <<>> THEN <<QueryWindows>> ELSE <<QueryWindows, QueryFocused>>
    /\ UNCHANGED <<displays, windows, focused, hw, changes, preset_dir, files, clock>>

\* [ws.get("workspace") for ws in workspaces]
AvailableWorkspaces(h) ==
    [k \in 1..Len(list_workspaces(h)) |-> list_workspaces(h)[k].workspace]

\* the windows of list_windows(workspace=workspace_name), as the resource lists them
WorkspaceWindows(wins, workspace_name) ==
    LET shown == SelectSeq(list_windows(wins), LAMBDA w : w.workspace = <<workspace_name>>)
    IN  [k \in 1..Len(shown) |-> [window_id |-> shown[k].window_id,
                                  app_name |-> shown[k].app_name]]

\* resources.py: get_workspace_resource(workspace_name); every workspace is visible
get_workspace_resource ==
    /\ \E workspace_name \in {"1", "2", "9"} :
          LET workspaces == list_workspaces(hw)
              hits == {k \in 1..Len(workspaces) : workspaces[k].workspace = workspace_name}
              focused_ws == get_focused_workspace(windows, focused)
          IN
          /\ op' = [name |-> "get_workspace_resource", workspace_name |-> workspace_name]
          /\ result' =
                IF hits = {}
                THEN Raise("WORKSPACE_NOT_FOUND",
                           <<"Workspace '", workspace_name, "' not found">>,
                           [requested_workspace |-> workspace_name,
                            available_workspaces |-> AvailableWorkspaces(hw)])
                ELSE LET ws == workspaces[CHOOSE k \in hits : \A j \in hits : k <= j] IN
                     Return([name |-> workspace_name, monitor |-> ws.monitor,
                             is_focused |-> IF focused_ws = <<>> THEN <<>>
                                            ELSE <<focused_ws = <<workspace_name>>>>,
                             is_visible |-> TRUE,
                             windows |-> WorkspaceWindows(windows, workspace_name)])
          /\ cmds' = IF hits = {} THEN <<QueryWorkspaces>>
                     ELSE <<QueryWorkspaces,
                            Command(<<"list-windows", "--workspace", workspace_name,
                                      "--json">>, TRUE),
                            QueryWorkspace,
                            Command(<<"list-workspaces", "--all", "--visible", "--json">>,
                                    TRUE)>>
    /\ UNCHANGED <<displays, windows, focused, hw, changes, preset_dir, files, clock>>

\* a list of available displays that is always empty
AvailableDisplaysNone(h) == <<>>

\* [d.get("id") for d in display_info.get("displays", [])]
AvailableDisplays(h) ==
    [k \in 1..Len(get_display_info(h).displays) |-> get_display_info(h).displays[k].id]

\* tools/display.py: get_display_by_id(display_id), <<>> for None
get_display_by_id(h, wins, foc, display_id) ==
    LET ds == get_display_info(h).displays
        hits == {k \in 1..Len(ds) : ds[k].id = display_id}
    IN  IF hits = {} THEN <<>>
        ELSE LET display == ds[CHOOSE k \in hits : \A j \in hits : k <= j]
                 workspaces == list_workspaces(h)
                 own == SelectSeq(workspaces, LAMBDA w : w.monitor = <<display.name>>)
                 focused_ws == get_focused_workspace(wins, foc)
                 on_display == SelectSeq(list_windows(wins),
                                         LAMBDA w : \E k \in 1..Len(own) :
                                                       w.workspace = <<own[k].workspace>>)
             IN  <<[id |-> display.id, name |-> display.name,
                    workspaces |-> [k \in 1..Len(own) |-> own[k].workspace],
                    focused_workspace |->
                        IF \E k \in 1..Len(own) : <<own[k].workspace>> = focused_ws
                        THEN focused_ws ELSE <<>>,
                    size_category |-> _get_size_category(EffectiveOrResolution(display)),
                    window_count |-> Len(on_display)]>>

\* resources.py: get_display_resource(display_id)
get_display_resource ==
    /\ \E display_id \in 0..3 :
          LET display == get_display_by_id(hw, windows, focused, display_id) IN
          /\ op' = [name |-> "get_display_resource", display_id |-> display_id]
          /\ result' = IF display = <<>>
                       THEN Raise("DISPLAY_NOT_FOUND",
                                  <<"Display with ID ", display_id, " not found">>,
                                  [requested_display_id |-> display_id,
                                   available_displays |-> AvailableDisplays(hw)])
                       ELSE Return(display[1])
          /\ cmds' = IF display = <<>> THEN <<QueryMonitors, QueryMonitors>>
                     ELSE <<QueryMonitors, QueryWorkspaces,
                            Command(<<"list-workspaces", "--all", "--focused", "--json">>,
                                    TRUE),
                            Command(<<"list-windows", "--monitor", display[1].name,
                                      "--json">>, TRUE)>>
    /\ UNCHANGED <<displays, windows, focused, hw, changes, preset_dir, files, clock>>

\* the detail resources read while windows open and close and get the focus, with no
\* monitor, the laptop panel, or the panel and an external monitor
InitResources == displays = <<>> /\ InitWorld({1, 2, 6})

NextResources ==
    \/ OpenToolWindow
    \/ CloseWindow
    \/ focus_either
    \/ get_window_resource
    \/ get_workspace_resource
    \/ get_display_resource

SpecResources == InitResources /\ [][NextResources]_vars

\* ------------------------------------------------------------------------
\* C22, under SpecResources

C22_Range(list) == {list[k] : k \in 1..Len(list)}

C22_Windows == {i \in WindowIds : windows[i] # <<>>}
C22_Workspaces == {Digit(i) : i \in 1..Len(HardwareConfigs[hw].monitors)}
C22_Displays == 1..Len(HardwareConfigs[hw].monitors)

C22_NotFound(code) == result.raised /\ result.error.code = code

\* C22: get_window_resource, get_workspace_resource and get_display_resource fail, with
\* WINDOW_NOT_FOUND, WORKSPACE_NOT_FOUND and DISPLAY_NOT_FOUND, exactly when what is
\* asked for is not listed; the details then carry the requested identifier and all
\* listed ones, and for a listed one the call returns the details of that one.
C22_NotFoundExactlyWhenMissing ==
    /\ op.name = "get_window_resource" =>
          IF op.window_id \in C22_Windows
          THEN ~result.raised /\ result.value.window_id = op.window_id
               /\ result.value.app_name = windows[op.window_id][1].app_name
          ELSE /\ C22_NotFound("WINDOW_NOT_FOUND")
               /\ result.error.details.requested_window_id = op.window_id
               /\ C22_Range(result.error.details.available_windows) = C22_Windows
    /\ op.name = "get_workspace_resource" =>
          IF op.workspace_name \in C22_Workspaces
          THEN ~result.raised /\ result.value.name = op.workspace_name
          ELSE /\ C22_NotFound("WORKSPACE_NOT_FOUND")
               /\ result.error.details.requested_workspace = op.workspace_name
               /\ C22_Range(result.error.details.available_workspaces) = C22_Workspaces
    /\ op.name = "get_display_resource" =>
          IF op.display_id \in C22_Displays
          THEN ~result.raised /\ result.value.id = op.display_id
          ELSE /\ C22_NotFound("DISPLAY_NOT_FOUND")
               /\ result.error.details.requested_display_id = op.display_id
               /\ C22_Range(result.error.details.available_displays) = C22_Displays

\* display 3 asked for with two displays connected
C22_Witness ==
    /\ op.name = "get_display_resource"
    /\ op.display_id = 3
    /\ C22_NotFound("DISPLAY_NOT_FOUND")
    /\ result.error.details.available_displays = <<1, 2>>

\* a closed window asked for while the other one is open
C22_WitnessWindow ==
    /\ op.name = "get_window_resource"
    /\ op.window_id = 1
    /\ C22_NotFound("WINDOW_NOT_FOUND")
    /\ result.error.details.available_windows = <<2>>

C22_WitnessWorkspace ==
    /\ op.name = "get_workspace_resource"
    /\ op.workspace_name = "2"
    /\ hw = 2
    /\ C22_NotFound("WORKSPACE_NOT_FOUND")
    /\ result.error.details.available_workspaces = <<"1">>

\* a listed window, workspace and display are returned
C22_WitnessListed ==
    /\ op.name = "get_display_resource"
    /\ op.display_id = 2
    /\ ~result.raised
    /\ result.value.workspaces = <<"2">>
    /\ result.value.window_count = 0
    /\ C22_Windows # {}

\* ------------------------------------------------------------------------
\* C23, under SpecTools

\* the tools of window.py and layout.py that change the window manager, but
\* fullscreen_toggle
C23_Mutating == {"focus_window", "move_window", "resize_window", "close_window",
                 "minimize_window", "set_layout", "split_window"}

\* the command is a listing
C23_IsQuery(cmd) == cmd.argv[1] \in {"list-windows", "list-workspaces", "list-monitors"}

\* C23: a successful call of a state-mutating tool other than fullscreen_toggle that has
\* issued a mutating command has queried the window manager after the last of them,
\* so that its response rests on a read made after the mutation.
C23_RequeriesAfterMutation ==
    (op.name \in C23_Mutating /\ ~result.raised /\ Mutations(cmds) > 0)
        => C23_IsQuery(cmds[Len(cmds)])

\* the same for the two tools that do query again, focus_window and set_layout
C23_FocusAndLayoutRequery ==
    (op.name \in {"focus_window", "set_layout"} /\ ~result.raised /\ Mutations(cmds) > 0)
        => C23_IsQuery(cmds[Len(cmds)])

\* ------------------------------------------------------------------------
\* The two validators of aerospace.py, alone and in the tools that call them

\* the valid values, and values that are none: another case, the empty text, a word
DirectionTexts == VALID_DIRECTIONS \cup {"LEFT", "", "sideways"}
LayoutTexts == VALID_LAYOUTS \cup {"Tiles", "", "stacked"}

call_validate_direction ==
    /\ \E direction \in DirectionTexts :
          /\ op' = [name |-> "validate_direction", direction |-> direction]
          /\ result' = IF validate_direction(direction) = <<>> THEN NoResult
                       ELSE validate_direction(direction)[1]
          /\ cmds' = <<>>
    /\ UNCHANGED <<displays, windows, focused, hw, changes, preset_dir, files, clock>>

call_validate_layout ==
    /\ \E layout \in LayoutTexts :
          /\ op' = [name |-> "validate_layout", layout |-> layout]
          /\ result' = IF validate_layout(layout) = <<>> THEN NoResult
                       ELSE validate_layout(layout)[1]
          /\ cmds' = <<>>
    /\ UNCHANGED <<displays, windows, focused, hw, changes, preset_dir, files, clock>>

focus_towards == Focus({<<d>> : d \in DirectionTexts}, {<<>>})

set_any_layout == SetLayout(LayoutTexts)

NextValidate ==
    \/ OpenToolWindow
    \/ CloseWindow
    \/ call_validate_direction
    \/ call_validate_layout
    \/ focus_towards
    \/ set_any_layout

SpecValidate == InitTools /\ [][NextValidate]_vars

\* ------------------------------------------------------------------------
\* C24, under SpecValidate

C24_Rejected(code, value) ==
    /\ result.raised
    /\ "error" \in DOMAIN result
    /\ result.error.code = code
    /\ \E k \in 1..Len(result.error.message) : result.error.message[k] = value

\* C24: validate_direction passes left, right, up and down and nothing else, and
\* validate_layout the eight layouts and nothing else; what they reject they reject
\* with INVALID_DIRECTION and INVALID_LAYOUT and a message that names the value, and
\* focus_window(direction) and set_layout(layout) fail with these errors for such a
\* value before any command is issued.
C24_ValidatorsAcceptExactly ==
    /\ op.name = "validate_direction" =>
          IF op.direction \in {"left", "right", "up", "down"} THEN ~result.raised
          ELSE C24_Rejected("INVALID_DIRECTION", op.direction)
    /\ op.name = "validate_layout" =>
          IF op.layout \in {"tiles", "accordion", "h_tiles", "v_tiles", "h_accordion",
                            "v_accordion", "floating", "tiling"}
          THEN ~result.raised
          ELSE C24_Rejected("INVALID_LAYOUT", op.layout)
    /\ (op.name = "focus_window" /\ op.direction # <<>> /\ op.window_id = <<>>) =>
          IF op.direction[1] \in {"left", "right", "up", "down"}
          THEN cmds # <<>> /\ cmds[1].argv = <<"focus", op.direction[1]>>
          ELSE C24_Rejected("INVALID_DIRECTION", op.direction[1]) /\ cmds = <<>>
    /\ op.name = "set_layout" =>
          IF op.layout \in {"tiles", "accordion", "h_tiles", "v_tiles", "h_accordion",
                            "v_accordion", "floating", "tiling"}
          THEN cmds # <<>> /\ cmds[1].argv = <<"layout", op.layout>>
          ELSE C24_Rejected("INVALID_LAYOUT", op.layout) /\ cmds = <<>>

\* set_layout('stacked') fails with INVALID_LAYOUT and no command
C24_Witness ==
    /\ op.name = "set_layout"
    /\ op.layout = "stacked"
    /\ C24_Rejected("INVALID_LAYOUT", "stacked")
    /\ cmds = <<>>

C24_WitnessFocus ==
    /\ op.name = "focus_window"
    /\ op.direction = <<"LEFT">>
    /\ C24_Rejected("INVALID_DIRECTION", "LEFT")
    /\ cmds = <<>>

C24_WitnessAccepted ==
    /\ op.name = "validate_layout"
    /\ op.layout = "tiling"
    /\ ~result.raised

C24_WitnessDirection ==
    /\ op.name = "validate_direction"
    /\ op.direction = ""
    /\ C24_Rejected("INVALID_DIRECTION", "")

\* ------------------------------------------------------------------------
\* tools/focus.py: two save_focus_preset('work') calls and a load_focus_preset('work')
\* as coroutines of one event loop.  A coroutine runs from one await to the next without
\* interruption; op.task holds where each of them stands and its local variables, and
\* op.wrote the saves in the order of their file writes.

Savers == {1, 2}
Loader == Cardinality(Savers) + 1

\* the description argument of the two saves
SaverDescription(t) == IF t = 1 THEN <<>> ELSE <<"Deep work">>

\* preset_data as save_focus_preset builds it from its local variables
BuildPresetData(name, description, display_cat, all_windows, monitors, now) ==
    [name |-> name,
     description |-> DescriptionOr(description, name),
     display_category |-> display_cat.category,
     created_at |-> now,
     windows |-> SnapshotWindows(all_windows),
     monitors |-> [i \in 1..Len(monitors) |-> monitors[i].name]]

NewSaver == [pc |-> "category", display_cat |-> <<>>, all_windows |-> <<>>,
             monitors |-> <<>>, preset_data |-> <<>>]
NewLoader == [pc |-> "read", preset_data |-> <<>>]

Step(t, task, wrote) ==
    /\ op' = [name |-> "concurrent", task |-> [op.task EXCEPT ![t] = task], wrote |-> wrote]
    /\ UNCHANGED <<displays, hw, changes>>

Running == op.name = "concurrent"

\* display_cat = await get_display_category()
SaveCategory(t) ==
    /\ Running /\ op.task[t].pc = "category"
    /\ Step(t, [op.task[t] EXCEPT !.pc = "windows",
                                  !.display_cat = <<get_display_category(hw)>>], op.wrote)
    /\ cmds' = <<QueryMonitors>>
    /\ UNCHANGED <<windows, focused, preset_dir, files, clock, result>>

\* all_windows = await list_windows(all_windows=True)
SaveWindows(t) ==
    /\ Running /\ op.task[t].pc = "windows"
    /\ Step(t, [op.task[t] EXCEPT !.pc = "monitors",
                                  !.all_windows = <<list_windows(windows)>>], op.wrote)
    /\ cmds' = <<QueryWindows>>
    /\ UNCHANGED <<windows, focused, preset_dir, files, clock, result>>

\* a save that keeps the window list of the record it replaces: a mixture of two saves
SaveMonitorsMerging(t) ==
    /\ Running /\ op.task[t].pc = "monitors"
    /\ LET mine == op.task[t]
           built == BuildPresetData(Work, SaverDescription(t), mine.display_cat[1],
                                    mine.all_windows[1], list_monitors(hw), clock)
           preset_data == IF files[PresetFile(Work)] = <<>> THEN built
                          ELSE [built EXCEPT !.windows = files[PresetFile(Work)][1].windows]
       IN  /\ preset_dir' = TRUE
           /\ clock' = clock + 1
           /\ cmds' = <<QueryMonitors>>
           /\ files' = WritePreset(files, Work, preset_data)
           /\ Step(t, [mine EXCEPT !.pc = "done", !.monitors = <<list_monitors(hw)>>,
                                   !.preset_data = <<built>>],
                   Append(op.wrote, t))
           /\ result' = Return([success |-> TRUE,
                                preset |-> [name |-> Work,
                                            created_at |-> preset_data.created_at]])
    /\ UNCHANGED <<windows, focused>>

\* monitors = await list_monitors() and everything after it: preset_data is built, the
\* directory made, the file opened, written and closed, with no await up to the return
SaveMonitors(t) ==
    /\ Running /\ op.task[t].pc = "monitors"
    /\ LET mine == op.task[t]
           preset_data == BuildPresetData(Work, SaverDescription(t), mine.display_cat[1],
                                          mine.all_windows[1], list_monitors(hw), clock)
       IN  /\ preset_dir' = TRUE
           /\ clock' = clock + 1
           /\ cmds' = <<QueryMonitors>>
           /\ files' = WritePreset(files, Work, preset_data)
           /\ Step(t, [mine EXCEPT !.pc = "done", !.monitors = <<list_monitors(hw)>>,
                                   !.preset_data = <<preset_data>>],
                   Append(op.wrote, t))
           /\ result' = Return([success |-> TRUE,
                                preset |-> [name |-> Work,
                                            created_at |-> preset_data.created_at]])
    /\ UNCHANGED <<windows, focused>>

\* load_focus_preset up to its first await: exists(), open and json.load, which read
\* the file as the last write left it
LoadRead ==
    /\ Running /\ op.task[Loader].pc = "read"
    /\ IF ~Exists(Work)
       THEN /\ Step(Loader, [op.task[Loader] EXCEPT !.pc = "done"], op.wrote)
            /\ result' = Raise("PRESET_NOT_FOUND", <<"Preset '", Work, "' not found">>,
                               [available_presets |-> AvailablePresets])
       ELSE /\ Step(Loader, [op.task[Loader] EXCEPT !.pc = "arrange",
                                                   !.preset_data = files[PresetFile(Work)]],
                    op.wrote)
            /\ UNCHANGED result
    /\ cmds' = <<>>
    /\ UNCHANGED <<windows, focused, preset_dir, files, clock>>

\* the rest of load_focus_preset, every command succeeding, taken in one piece
LoadArrange ==
    /\ Running /\ op.task[Loader].pc = "arrange"
    /\ LET preset_data == op.task[Loader].preset_data[1]
           st == ArrangeAll([cmds |-> <<QueryMonitors, QueryWindows>>, windows |-> windows,
                             focused |-> focused, count |-> 0],
                            preset_data.windows, 1, list_windows(windows),
                            [k \in 1..Len(preset_data.windows) |-> "ok"])
       IN  /\ Step(Loader, [op.task[Loader] EXCEPT !.pc = "done"], op.wrote)
           /\ result' = Return([success |-> TRUE, preset_loaded |-> Work,
                                adapted |-> FALSE, windows_arranged |-> st.count])
           /\ cmds' = st.cmds
           /\ windows' = st.windows
           /\ focused' = st.focused
    /\ UNCHANGED <<preset_dir, files, clock>>

\* a load_focus_preset('work') called again when the last one has returned
LoadAgain ==
    /\ Running /\ op.task[Loader].pc = "done"
    /\ \E t \in Savers : op.task[t].pc # "done"
    /\ Step(Loader, NewLoader, op.wrote)
    /\ UNCHANGED <<windows, focused, preset_dir, files, clock, result, cmds>>

\* the user opens a window while the calls run
WindowArrives ==
    /\ Running
    /\ \E i \in WindowIds, a \in {Slack, Code} :
          /\ windows[i] = <<>>
          /\ windows' = [windows EXCEPT ![i] = <<[app_name |-> a, workspace |-> <<"1">>]>>]
    /\ UNCHANGED <<displays, focused, hw, changes, preset_dir, files, clock, op, result, cmds>>

InitConcurrent ==
    /\ displays = <<>>
    /\ windows = [i \in WindowIds |-> <<>>]
    /\ focused = 0
    /\ hw = 6
    /\ changes = 0
    /\ preset_dir = FALSE
    /\ files = [f \in PresetFiles |-> <<>>]
    /\ clock = 0
    /\ op = [name |-> "concurrent",
             task |-> <<NewSaver, NewSaver, NewLoader>>,
             wrote |-> <<>>]
    /\ result = NoResult
    /\ cmds = <<>>

NextConcurrent ==
    \/ \E t \in Savers : SaveCategory(t)
    \/ \E t \in Savers : SaveWindows(t)
    \/ \E t \in Savers : SaveMonitors(t)
    \/ LoadRead
    \/ LoadArrange
    \/ LoadAgain
    \/ WindowArrives

SpecConcurrent == InitConcurrent /\ [][NextConcurrent]_vars

\* ------------------------------------------------------------------------
\* C25, under SpecConcurrent

\* the records the saves have built so far
C25_Built == {op.task[t].preset_data[1] : t \in {u \in Savers : op.task[u].preset_data # <<>>}}

C25_SavesDone == \A t \in Savers : op.task[t].pc = "done"

\* C25: with two saves of one name and loads of it interleaved at their awaits, the
\* file holds at every moment nothing or the whole record of the save that wrote last,
\* so after both saves it is the record of the later writer and no mixture; a load has
\* read a whole record one of the saves built, never a partly written file.
C25_LastWriterWins ==
    /\ files[PresetFile(Work)] # <<>> =>
          /\ op.wrote # <<>>
          /\ files[PresetFile(Work)] = op.task[op.wrote[Len(op.wrote)]].preset_data
    /\ C25_SavesDone =>
          /\ Len(op.wrote) = 2
          /\ files[PresetFile(Work)] = op.task[op.wrote[2]].preset_data
    /\ op.task[Loader].preset_data # <<>> => op.task[Loader].preset_data[1] \in C25_Built

\* both saves done; the load has read the record of the first writer and the file
\* holds the different record of the second
C25_Witness ==
    /\ C25_SavesDone
    /\ op.wrote = <<2, 1>>
    /\ op.task[Loader].preset_data = op.task[2].preset_data
    /\ files[PresetFile(Work)] = op.task[1].preset_data
    /\ op.task[1].preset_data[1].windows # op.task[2].preset_data[1].windows

\* the save that listed the windows first writes last: an older list replaces a newer
C25_WitnessStale ==
    /\ C25_SavesDone
    /\ op.wrote = <<2, 1>>
    /\ Len(op.task[1].preset_data[1].windows) < Len(op.task[2].preset_data[1].windows)
    /\ files[PresetFile(Work)] = op.task[1].preset_data

\* ------------------------------------------------------------------------
\* C26, under SpecDisplay

\* a successful call that took the built-in path, every command of it succeeding
C26_BuiltIn ==
    /\ op.name = "apply_focus_preset"
    /\ ~result.raised
    /\ "preset_applied" \in DOMAIN result.value
    /\ \A k \in 1..Len(cmds) : cmds[k].ok

C26_Issued(argv) == \E k \in 1..Len(cmds) : cmds[k].argv = argv

\* the windows the call had to treat as reference windows: those of a reference
\* application other than the focus window
C26_References ==
    {i \in WindowIds : /\ windows[i] # <<>>
                       /\ i # result.value.layout.focus_window.window_id
                       /\ AppCategoryOf[windows[i][1].app_name] = <<"reference">>}

\* the commands of the layout the preset name stands for
C26_LayoutOf(preset) ==
    CASE preset = SmallSingleFocus -> C26_Issued(<<"fullscreen">>)
      [] preset = MediumSplit ->
            C26_Issued(<<"layout", "h_tiles">>) /\ C26_Issued(<<"resize", "width", "+30%">>)
      [] preset = LargeCentered -> C26_Issued(<<"layout", "h_tiles">>)
      [] preset = DualMonitorFocus ->
            /\ C26_Issued(<<"fullscreen">>)
            /\ \A i \in C26_References :
                  \E k \in 1..(Len(cmds) - 1) :
                     /\ cmds[k].argv = <<"focus", "--window-id", Digit(i)>>
                     /\ cmds[k + 1].argv = <<"move-node-to-monitor", "next">>
      [] preset = TripleMonitorFocus ->
            /\ C26_Issued(<<"fullscreen">>)
            /\ \E k \in 1..Len(cmds) : cmds[k].argv[1] = "move-node-to-monitor"
      [] OTHER -> FALSE

\* C26: a successful apply_focus_preset with no stored preset of the resolved name has
\* applied one of the five built-in layouts, the one its preset_applied names:
\* fullscreen; h_tiles with the focus window widened; h_tiles; fullscreen with every
\* reference window moved to the next monitor; fullscreen with windows spread over the
\* monitors.
C26_OneOfFiveLayouts == C26_BuiltIn => C26_LayoutOf(result.value.preset_applied)

\* the same for the names whose layout the code does issue: small_single_focus, and
\* dual_monitor_focus with two monitors or more
C26_SmallAndDualApplied ==
    (C26_BuiltIn /\ (\/ result.value.preset_applied = SmallSingleFocus
                     \/ (result.value.preset_applied = DualMonitorFocus
                         /\ Len(list_monitors(hw)) >= 2)))
        => C26_LayoutOf(result.value.preset_applied)

\* a name that is neither stored nor built in: success, and only the focus commands
C26_UnknownNameSucceeds ==
    /\ C26_BuiltIn
    /\ result.value.preset_applied = Work
    /\ Mutations(cmds) = 2
    /\ result.value.layout.focus_window.arrangement = "normal"

\* three monitors: fullscreen and nothing moved
C26_TripleOnlyFullscreen ==
    /\ C26_BuiltIn
    /\ result.value.preset_applied = TripleMonitorFocus
    /\ ~op.hide_communication
    /\ Mutations(cmds) = 3

\* ------------------------------------------------------------------------
\* Windows whose fullscreen state the window manager keeps, toggled again and again

OpenTrackedWindow ==
    Open({[app_name |-> a, workspace |-> <<"1">>, is_fullscreen |-> FALSE] : a \in {Slack, Code}})

NextFullscreen ==
    \/ OpenTrackedWindow
    \/ CloseWindow
    \/ focus_either
    \/ fullscreen_toggle

SpecFullscreen == InitTools /\ [][NextFullscreen]_vars

\* ------------------------------------------------------------------------
\* C27, under SpecFullscreen

C27_Toggled == op.name = "fullscreen_toggle" /\ ~result.raised

C27_WitnessOn ==
    /\ C27_Toggled
    /\ result.value.fullscreen
    /\ windows[result.value.window_id][1].is_fullscreen

\* ------------------------------------------------------------------------
\* C28, under SpecTools

\* the width of the first display as resize_window_optimal reads it
C28_ScreenWidth == Get(ScreenResolution(get_display_info(hw)).width, 1920)

C28_Resized == op.name = "resize_window_optimal" /\ ~result.raised

\* C28: resize_window_optimal does not fail with an arithmetic error, whatever display
\* get_display_info lists first, and the width a successful call returns lies between
\* min_width_percent and max_width_percent of the screen width, both rounded down.
C28_WidthWithinPercentages ==
    op.name = "resize_window_optimal" =>
        /\ "exception" \notin DOMAIN result
        /\ ~result.raised =>
              /\ result.value.new_dimensions.width
                    <= (C28_ScreenWidth * op.max_width_percent) \div 100
              /\ result.value.new_dimensions.width
                    >= (C28_ScreenWidth * op.min_width_percent) \div 100

\* the same without the two cases the code gets wrong: a first display of width 0 and
\* a minimum above the maximum
C28_WithinWhenOrdered ==
    (op.name = "resize_window_optimal" /\ C28_ScreenWidth > 0
     /\ op.min_width_percent <= op.max_width_percent)
        => /\ "exception" \notin DOMAIN result
           /\ ~result.raised =>
                 /\ result.value.new_dimensions.width
                       <= (C28_ScreenWidth * op.max_width_percent) \div 100
                 /\ result.value.new_dimensions.width
                       >= (C28_ScreenWidth * op.min_width_percent) \div 100

\* a first display of width 0: the division by the screen width raises
C28_DivisionByZero ==
    /\ op.name = "resize_window_optimal"
    /\ C28_ScreenWidth = 0
    /\ "exception" \in DOMAIN result
    /\ result.exception.type = "ZeroDivisionError"

\* a minimum above the maximum: the width returned is above the maximum
C28_AboveMaximum ==
    /\ C28_Resized
    /\ result.value.new_dimensions.width > (C28_ScreenWidth * op.max_width_percent) \div 100

\* ------------------------------------------------------------------------
\* A preset saved and loaded while windows of two applications open in two workspaces

NextRoundTrip ==
    \/ OpenPresetWindow
    \/ CloseWindow
    \/ SaveWork
    \/ LoadWork

SpecRoundTrip == InitBatch /\ [][NextRoundTrip]_vars

\* ------------------------------------------------------------------------
\* C29, under SpecRoundTrip

\* the step is a load_focus_preset of the name the call before it has saved, with no
\* command failing
C29_LoadsWhatWasSaved ==
    /\ op.name = "save_focus_preset"
    /\ op'.name = "load_focus_preset"
    /\ op'.preset = op.preset
    /\ ~result'.raised
    /\ \A k \in 1..Len(cmds') : cmds'[k].ok

\* no application has windows in two workspaces
C29_OneWorkspaceForEachApp ==
    \A i, j \in WindowIds :
        (windows[i] # <<>> /\ windows[j] # <<>>
         /\ windows[i][1].app_name = windows[j][1].app_name)
            => windows[i][1].workspace = windows[j][1].workspace

\* C29 as stated: a load_focus_preset right after the save_focus_preset of the same
\* name, no command failing, leaves every window in the workspace it was in, also when
\* an application has windows in different workspaces.
C29_LoadRestoresAssignment ==
    [][C29_LoadsWhatWasSaved => windows' = windows]_vars

\* C29: a load_focus_preset right after the save_focus_preset of the same name, no
\* command failing, leaves every window in the workspace it was in, provided that no
\* application has windows in different workspaces.
C29_LoadRestoresWhenAppsInOneWorkspace ==
    [][(C29_LoadsWhatWasSaved /\ C29_OneWorkspaceForEachApp) => windows' = windows]_vars

C29_Loaded ==
    /\ op.name = "load_focus_preset"
    /\ ~result.raised
    /\ Exists(op.preset)
    /\ \A k \in 1..Len(cmds) : cmds[k].ok
    /\ files[PresetFile(op.preset)][1].windows = SnapshotWindows(list_windows(windows))

\* two applications in two workspaces, saved and loaded: both windows arranged and
\* where they were
C29_Witness ==
    /\ C29_Loaded
    /\ C29_OneWorkspaceForEachApp
    /\ result.value.windows_arranged = 2
    /\ windows[1] # <<>> /\ windows[2] # <<>>
    /\ windows[1][1].app_name # windows[2][1].app_name
    /\ windows[1][1].workspace # windows[2][1].workspace

\* two windows of one application, after a load that has arranged two entries: both
\* in one workspace
C29_WitnessSameApp ==
    /\ op.name = "load_focus_preset"
    /\ ~result.raised
    /\ result.value.windows_arranged = 2
    /\ windows[1] # <<>> /\ windows[2] # <<>>
    /\ windows[1][1].app_name = windows[2][1].app_name
    /\ windows[1][1].workspace = windows[2][1].workspace

\* ------------------------------------------------------------------------
\* tools/window.py: focus_window(window_id=...) as a coroutine, while the user opens and
\* closes windows.  The call stands at an await of a listing: op.pc is "lookup" before
\* get_window_by_id has its answer, "listing" before list_windows(all_windows=True) has
\* its answer, "done" after the return or the raise.

Idle == op.name = "init" \/ (op.name = "focus_window" /\ op.pc = "done")

\* focus_window(window_id=window_id) is called
FocusCalled ==
    /\ Idle
    /\ \E window_id \in WindowIds :
          op' = [name |-> "focus_window", direction |-> <<>>, window_id |-> <<window_id>>,
                 pc |-> "lookup"]
    /\ result' = NoResult
    /\ cmds' = <<>>
    /\ UNCHANGED <<displays, windows, focused, hw, changes, preset_dir, files, clock>>

\* window = await get_window_by_id(window_id), and when there is one the focus command
\* and the rest of the call, the command succeeding
FocusLookup ==
    /\ op.name = "focus_window" /\ op.pc = "lookup"
    /\ LET window_id == op.window_id[1]
           window == get_window_by_id(windows, window_id)
       IN  IF window = <<>>
           THEN /\ op' = [op EXCEPT !.pc = "listing"]
                /\ cmds' = <<QueryWindows>>
                /\ UNCHANGED <<result, focused>>
           ELSE /\ op' = [op EXCEPT !.pc = "done"]
                /\ cmds' = <<QueryWindows,
                             Command(<<"focus", "--window-id", Digit(window_id)>>, TRUE),
                             QueryFocused>>
                /\ focused' = window_id
                /\ result' = FocusedResult(windows, window_id)
    /\ UNCHANGED <<displays, windows, hw, changes, preset_dir, files, clock>>

\* available = await list_windows(all_windows=True), and the raise
FocusListing ==
    /\ op.name = "focus_window" /\ op.pc = "listing"
    /\ op' = [op EXCEPT !.pc = "done"]
    /\ cmds' = Append(cmds, QueryWindows)
    /\ result' = WindowNotFound(windows, op.window_id[1])
    /\ UNCHANGED <<displays, windows, focused, hw, changes, preset_dir, files, clock>>

\* the user opens a window, whatever the call is doing
WindowOpens ==
    /\ \E i \in WindowIds, a \in {Slack, Code} :
          /\ windows[i] = <<>>
          /\ windows' = [windows EXCEPT ![i] = <<[app_name |-> a, workspace |-> <<"1">>]>>]
    /\ UNCHANGED <<displays, focused, hw, changes, preset_dir, files, clock, op, result, cmds>>

\* the user closes a window, whatever the call is doing
WindowCloses ==
    /\ \E i \in WindowIds :
          /\ windows[i] # <<>>
          /\ windows' = [windows EXCEPT ![i] = <<>>]
          /\ focused' = IF focused = i THEN 0 ELSE focused
    /\ UNCHANGED <<displays, hw, changes, preset_dir, files, clock, op, result, cmds>>

NextLookup ==
    \/ FocusCalled
    \/ FocusLookup
    \/ FocusListing
    \/ WindowOpens
    \/ WindowCloses

SpecLookup == InitTools /\ [][NextLookup]_vars

\* ------------------------------------------------------------------------
\* C30, under SpecLookup

C30_NotFound ==
    /\ op.name = "focus_window"
    /\ op.pc = "done"
    /\ result.raised
    /\ result.error.code = "WINDOW_NOT_FOUND"

\* C30: the available_windows of a WINDOW_NOT_FOUND error never holds the requested
\* window id, also when windows open and close during the call.
C30_RequestedNotAvailable ==
    C30_NotFound =>
        \A k \in 1..Len(result.error.details.available_windows) :
            result.error.details.available_windows[k]
                # result.error.details.requested_window_id

\* the error of a call during which no window was there to open names only other ids
C30_OthersListed ==
    /\ C30_NotFound
    /\ result.error.details.requested_window_id = 1
    /\ result.error.details.available_windows = <<2>>

\* window 1 not found, and window 1 among the available windows
C30_RequestedListed ==
    /\ C30_NotFound
    /\ result.error.details.requested_window_id = 1
    /\ result.error.details.available_windows = <<1>>

====
